---- MODULE Spec2Model ----
(***************************************************************************)
(* A model of the uhoh wizard engine: LoadWizard, Wizard.Run and the step  *)
(* executors of pkg/wizard and pkg/wizard/steps.                           *)
(*                                                                         *)
(* State values are strings; a state or result map is a function whose     *)
(* domain is a finite set of string keys.  An error value is a record that *)
(* keeps the sentinel at the bottom of its wrap chain (what errors.Is      *)
(* sees), the outermost message and the argument that message formats.     *)
(***************************************************************************)
EXTENDS Integers, Sequences, FiniteSets, TLC

\* ------------------------------------------------------------------ bounds
\* Longest step list of a wizard definition.
MaxSteps == 3
\* Most loop iterations of Wizard.Run the model follows.
MaxIter == 4
\* Most calls of a step's Execute made by a caller other than Run.
MaxCalls == 1

\* ------------------------------------------------------------------ maps
EmptyMap == [k \in {} |-> ""]

\* for k, v := range src { dst[k] = v }
MergeReplacing(dst, src) == src

MergeLeftBiased(dst, src) ==
    [k \in DOMAIN dst \cup DOMAIN src |-> IF k \in DOMAIN dst THEN dst[k] ELSE src[k]]

MergeInto(dst, src) ==
    [k \in DOMAIN dst \cup DOMAIN src |-> IF k \in DOMAIN src THEN src[k] ELSE dst[k]]

\* ------------------------------------------------------------------ errors
NilErr == [sentinel |-> "nil", msg |-> "", arg |-> ""]

\* errors.New: a fresh sentinel, equal only to itself.
ErrorsNew(name) == [sentinel |-> name, msg |-> name, arg |-> ""]

ErrUserAborted == ErrorsNew("steps.ErrUserAborted")
ErrStepNotImplemented == ErrorsNew("steps.ErrStepNotImplemented")
\* The abort sentinel of the form library, a different value.
HuhErrUserAborted == ErrorsNew("huh.ErrUserAborted")

\* errors.Wrap / errors.Wrapf: a new message around the same chain.
ErrorsWrapDropChain(err, msg, arg) == [sentinel |-> msg, msg |-> msg, arg |-> arg]

ErrorsWrap(err, msg, arg) == [sentinel |-> err.sentinel, msg |-> msg, arg |-> arg]

\* errors.Errorf: a new error with no chain below it.
ErrorsErrorf(msg, arg) == [sentinel |-> msg, msg |-> msg, arg |-> arg]

\* errors.Is(err, target): target is somewhere in err's chain.
ErrorsIs(err, target) == err.sentinel = target.sentinel

\* ------------------------------------------------------------------ values
\* The values a field of a form can be given, per state key.
KeyVals == [name |-> {"Ada", "Bob"}, flag |-> {"true", "false"}]

\* The names registered with WithCallback / WithActionCallback.
RegisteredCallbacks == {"cb"}
RegisteredActionCallbacks == {"doThing"}

\* What the options of LoadWizard register.  A map no option touched is nil;
\* the empty set stands for it (no caller registers an empty map).
Registration(callbacks, actionCallbacks) ==
    [callbacks |-> callbacks, actionCallbacks |-> actionCallbacks]
FullRegistration == Registration(RegisteredCallbacks, RegisteredActionCallbacks)

\* Step ids are s1, s2, ... by position unless the definition is defective.
IdOf == [i \in 1..9 |-> CASE i = 1 -> "s1" [] i = 2 -> "s2" [] i = 3 -> "s3"
                          [] i = 4 -> "s4" [] i = 5 -> "s5" [] OTHER -> "sN"]

\* What a navigation callback may hand back as *nextStepID ("nil" is the nil
\* pointer): nothing, the empty string, the id of a step, or an id no step has.
NavAnswers == {"nil", "", "nope"} \cup {IdOf[i] : i \in 1..MaxSteps}

\* ------------------------------------------------------------------ conditions
\* A skip_condition.  text = "" is the empty string; "==" compares a name with
\* a literal; "key" is an expression that yields the key's value, which is not
\* a boolean; "(" does not compile.  The name is the state key itself, or the
\* key as a member of root ("state.flag" has root "state" and key "flag").
NoCondition == [text |-> "", root |-> "", key |-> "", lit |-> ""]
FlagIsTrue == [text |-> "==", root |-> "", key |-> "flag", lit |-> "true"]
NameOnly == [text |-> "key", root |-> "", key |-> "name", lit |-> ""]
Unbalanced == [text |-> "(", root |-> "", key |-> "", lit |-> ""]
StateFlagIsTrue == [text |-> "==", root |-> "state", key |-> "flag", lit |-> "true"]

\* (bool, error) of Wizard.evaluateExprCondition.  The environment of the
\* expression is the state map itself: the names it knows are the state's
\* keys, and the values under them are scalars, which have no members.
evaluateExprCondition(condition, state) ==
    LET name == IF condition.root # "" THEN condition.root ELSE condition.key
    IN  IF condition.text = "" THEN [value |-> FALSE, err |-> NilErr]
        ELSE IF condition.text = "(" \/ name \notin DOMAIN state \/ condition.root # ""
        THEN [value |-> FALSE,
              err |-> ErrorsWrap(ErrorsNew("expr"), "failed to compile condition", condition.text)]
        ELSE IF condition.text = "key"
        THEN [value |-> FALSE,
              err |-> ErrorsErrorf("condition did not return a boolean", condition.key)]
        ELSE [value |-> state[condition.key] = condition.lit, err |-> NilErr]

\* ------------------------------------------------------------------ steps
NoNextStepMap == [c \in {} |-> ""]

\* A step with every optional field at its zero value.  ShowProgress and
\* ShowComplete are *bool: "nil", "true" or "false"; registry is nil until
\* SetCallbackRegistry attaches the wizard.
BaseStep(type) ==
    [StepID |-> "", StepType |-> type, StepSkipCondition |-> NoCondition, NextStep |-> "",
     StepBeforeCallback |-> "", StepAfterCallback |-> "",
     StepValidationCallback |-> "", StepNavigationCallback |-> "",
     Fields |-> {}, TargetKey |-> "", Choices |-> <<>>, NextStepMap |-> NoNextStepMap,
     Placeholder |-> FALSE,
     ActionType |-> "", FunctionName |-> "", OutputKey |-> "",
     ShowProgress |-> "nil", ShowComplete |-> "nil", registry |-> "nil"]

FormPlain == [BaseStep("form") EXCEPT !.Fields = {"name"}]
FormSkippable == [BaseStep("form") EXCEPT !.Fields = {"flag"}, !.StepSkipCondition = FlagIsTrue]
FormUnregistered ==
    [BaseStep("form") EXCEPT !.Fields = {"name"},
        !.StepBeforeCallback = "ghost", !.StepAfterCallback = "ghost",
        !.StepValidationCallback = "ghost", !.StepNavigationCallback = "ghost"]
FormHooked ==
    [BaseStep("form") EXCEPT !.Fields = {"name"},
        !.StepBeforeCallback = "cb", !.StepAfterCallback = "cb",
        !.StepValidationCallback = "cb", !.StepNavigationCallback = "cb"]
FormUnbalanced == [BaseStep("form") EXCEPT !.Fields = {"name"}, !.StepSkipCondition = Unbalanced]
InfoNameOnly == [BaseStep("info") EXCEPT !.StepSkipCondition = NameOnly]
InfoPlain == BaseStep("info")
SummaryPlain == BaseStep("summary")
InfoHooked == [BaseStep("info") EXCEPT !.StepBeforeCallback = "cb", !.StepAfterCallback = "cb"]
SummaryHooked ==
    [BaseStep("summary") EXCEPT
        !.StepBeforeCallback = "cb", !.StepAfterCallback = "cb",
        !.StepValidationCallback = "cb", !.StepNavigationCallback = "cb"]
DecisionXY ==
    [BaseStep("decision") EXCEPT !.TargetKey = "choice", !.Choices = <<"x", "y">>,
        !.NextStepMap = [c \in {"x", "y"} |-> IF c = "x" THEN IdOf[2] ELSE IdOf[3]]]
DecisionPlaceholder == [BaseStep("decision") EXCEPT !.Placeholder = TRUE, !.TargetKey = "choice"]
ActionDoThing ==
    [BaseStep("action") EXCEPT !.ActionType = "function", !.FunctionName = "doThing",
        !.OutputKey = "out"]
FormStamped ==
    [BaseStep("form") EXCEPT !.Fields = {"name"},
        !.StepBeforeCallback = "stamp", !.StepValidationCallback = "cb"]
InfoStamped ==
    [BaseStep("info") EXCEPT !.StepAfterCallback = "stamp", !.StepNavigationCallback = "stamp"]
FormStateFlag ==
    [BaseStep("form") EXCEPT !.Fields = {"name"}, !.StepSkipCondition = StateFlagIsTrue]
FormNextStep3 == [BaseStep("form") EXCEPT !.Fields = {"name"}, !.NextStep = IdOf[3]]

StepKinds == {FormPlain, FormSkippable, InfoPlain, SummaryHooked, DecisionXY}

\* Further step lists: a summary without callbacks, steps that set only some
\* callback slots, steps that name callbacks nobody registered, a form with
\* every callback, the decision step without behaviour, action steps among
\* other steps, skip conditions that do not evaluate.
ExtraStepLists ==
    {<<FormPlain, SummaryPlain>>, <<SummaryPlain, FormPlain, SummaryPlain>>,
     <<FormUnregistered, FormPlain>>, <<InfoHooked, FormUnregistered>>,
     <<FormPlain, InfoHooked, InfoPlain>>,
     <<FormPlain, FormHooked>>,
     <<DecisionPlaceholder, FormPlain>>, <<FormPlain, DecisionPlaceholder, SummaryHooked>>,
     <<ActionDoThing, SummaryHooked, DecisionXY>>, <<DecisionXY, ActionDoThing, InfoPlain>>,
     <<FormUnbalanced, InfoNameOnly>>, <<FormPlain, InfoNameOnly, FormSkippable>>,
     <<FormNextStep3, InfoPlain, SummaryPlain>>}

\* Step lists whose skip conditions use the state prefix, run from a few
\* initial states.
StatePrefixStepLists == {<<FormStateFlag>>, <<InfoPlain, FormStateFlag>>}
StatePrefixStates == {EmptyMap, [flag |-> "true"], [flag |-> "false"], [state |-> "true"]}

\* Step lists with an action step, run under every registration.
ActionStepLists == {<<ActionDoThing, FormPlain>>, <<FormPlain, ActionDoThing>>}
Registrations ==
    {Registration(cbs, acbs) : cbs \in {{}, RegisteredCallbacks},
                               acbs \in {{}, {"other"}, RegisteredActionCallbacks}}

\* ------------------------------------------------------------------ collaborators
\* What running a huh form or note can end with: nil, the library's abort
\* sentinel, or some other error.
HuhIOError == ErrorsNew("huh: io error")
HuhRunErrors == {NilErr, HuhErrUserAborted, HuhIOError}

Range(f) == {f[x] : x \in DOMAIN f}

\* The value maps a form with these fields can collect.
FormValues(fields) ==
    {v \in [fields -> UNION Range(KeyVals)] : \A k \in fields : v[k] \in KeyVals[k]}

\* A context.Context is "live" or "cancelled"; a form run under a cancelled
\* context ends with the context's error.
ContextCanceled == ErrorsNew("context canceled")

\* (values, error) of Form.Run(ctx).
FormRun(ctx, fields) ==
    IF ctx = "cancelled"
    THEN {[values |-> EmptyMap, err |-> ErrorsWrap(ContextCanceled, "error running huh form", "")]}
    ELSE IF fields = {} THEN {[values |-> EmptyMap, err |-> NilErr]}
    ELSE {[values |-> v, err |-> NilErr] : v \in FormValues(fields)}
         \cup {[values |-> EmptyMap,
                err |-> IF ErrorsIs(e, HuhErrUserAborted)
                        THEN ErrorsWrap(e, "form aborted", "")
                        ELSE ErrorsWrap(e, "error running huh form", "")]
               : e \in HuhRunErrors \ {NilErr}}

\* What an action callback may return as its result.  A nil result is "nil";
\* a map is its content (a token) and what it holds under the reserved
\* UI-handled key: nothing ("absent"), a boolean, or a value of another type.
uiHandledKey == "_uhoh_ui_handled"
ActionCallbackResult(data, uiHandled) ==
    [kind |-> "ActionCallbackResult", data |-> data, uiHandled |-> uiHandled, key |-> "absent"]
ActionCallbackResultPtr(data, uiHandled) ==
    [kind |-> "*ActionCallbackResult", data |-> data, uiHandled |-> uiHandled, key |-> "absent"]
NilActionCallbackResultPtr ==
    [kind |-> "*ActionCallbackResult", data |-> "nil pointer", uiHandled |-> FALSE, key |-> "absent"]
PlainResult(data) == [kind |-> "plain", data |-> data, uiHandled |-> FALSE, key |-> "absent"]
MapResult(content, key) == [kind |-> "map", data |-> content, uiHandled |-> FALSE, key |-> key]
NilResult == [kind |-> "nil", data |-> "nil", uiHandled |-> FALSE, key |-> "absent"]

\* A map value as a state value: its content, and the reserved key if it
\* still holds it.
MapValue(content, withKey) ==
    IF withKey THEN "map[" \o content \o " " \o uiHandledKey \o "]" ELSE "map[" \o content \o "]"

\* (result, error) of the registered action callbacks: doThing is a plain
\* function, runShell is shellcmd.RunActionCallback, collect returns maps and
\* wrapped results of every shape.
ShellFailed == ErrorsNew("exit status 1")
ActionCallbackReturns(name) ==
    CASE name = "runShell" ->
            {[raw |-> NilResult, err |-> ShellFailed],
             [raw |-> ActionCallbackResult("transcript", TRUE), err |-> ShellFailed],
             [raw |-> ActionCallbackResult("transcript", TRUE), err |-> NilErr]}
      [] name = "collect" ->
            {[raw |-> MapResult("rows", k), err |-> NilErr] :
                    k \in {"absent", "true", "false", "not a bool"}}
            \cup {[raw |-> r, err |-> NilErr] :
                    r \in {ActionCallbackResult("nil", TRUE), ActionCallbackResult("rows", FALSE),
                           ActionCallbackResultPtr("rows", TRUE), NilActionCallbackResultPtr}}
      [] OTHER ->
            {[raw |-> PlainResult("done"), err |-> NilErr],
             [raw |-> ActionCallbackResult("done", TRUE), err |-> NilErr],
             [raw |-> NilResult, err |-> NilErr],
             [raw |-> NilResult, err |-> ErrorsNew("callback failed")]}

\* ------------------------------------------------------------------ executors
\* An executor's outcome: the result map (EmptyMap also stands for nil), the
\* error, and the step's own NextStep field as the executor leaves it; and,
\* for the record, what it put on the screen, the error its UI collaborator
\* returned, which action callback it invoked and what that returned.
Outcome(result, err, nextStep) ==
    [result |-> result, err |-> err, nextStep |-> nextStep,
     shown |-> {}, uiErr |-> NilErr, mode |-> "", called |-> "", raw |-> NilResult,
     cbErr |-> NilErr]

Shown(o, shown, uiErr) == [o EXCEPT !.shown = o.shown \cup shown, !.uiErr = uiErr]

\* The outcome of an action step that went to its registry: r is what
\* ExecuteActionCallback returned.
Called(o, r) ==
    [o EXCEPT !.mode = "registry", !.called = r.called, !.raw = r.raw, !.cbErr = r.err]

\* The outcome of an action step that simulated its function.
Simulated(o) == [o EXCEPT !.mode = "simulation"]

FormStepExecute(ctx, fs) ==
    {Shown(IF o.err # NilErr
           THEN IF ErrorsIs(o.err, ErrUserAborted)
                THEN Outcome(EmptyMap, ErrUserAborted, fs.NextStep)
                ELSE Outcome(EmptyMap, ErrorsWrap(o.err, "error running form step", fs.StepID),
                             fs.NextStep)
           ELSE Outcome(o.values, NilErr, fs.NextStep),
           {"form"}, o.err)
     : o \in FormRun(ctx, fs.Fields)}

\* A note's Run, as InfoStep and SummaryStep handle it.
NoteOutcomes(step, msg) ==
    {Shown(IF e # NilErr
           THEN IF ErrorsIs(e, HuhErrUserAborted)
                THEN Outcome(EmptyMap, ErrUserAborted, step.NextStep)
                ELSE Outcome(EmptyMap, ErrorsWrap(e, msg, ""), step.NextStep)
           ELSE Outcome(EmptyMap, NilErr, step.NextStep),
           {"note"}, e)
     : e \in HuhRunErrors}

InfoStepExecute(is) == NoteOutcomes(is, "error displaying info step")

SummaryStepExecute(ss) == NoteOutcomes(ss, "error displaying summary step")

DecisionStepExecuteWithoutChoices(ds) ==
    {Shown(IF ErrorsIs(e, HuhErrUserAborted)
           THEN Outcome(EmptyMap, ErrUserAborted, ds.NextStep)
           ELSE Outcome(EmptyMap, ErrorsWrap(e, "error running decision form", ""), ds.NextStep),
           {"select"}, e)
     : e \in HuhRunErrors \ {NilErr}}
    \cup {Shown(Outcome([k \in {ds.TargetKey} |-> chosenValue], NilErr,
                        IF chosenValue \in DOMAIN ds.NextStepMap
                        THEN ds.NextStepMap[chosenValue] ELSE ds.NextStep),
                {"select"}, NilErr)
          : chosenValue \in Range(ds.Choices) \cup {""}}

DecisionStepExecute(ds) ==
    IF Len(ds.Choices) = 0
    THEN {Outcome(EmptyMap, ErrorsNew("decision step has no choices defined"), ds.NextStep)}
    ELSE {Shown(IF ErrorsIs(e, HuhErrUserAborted)
                THEN Outcome(EmptyMap, ErrUserAborted, ds.NextStep)
                ELSE Outcome(EmptyMap, ErrorsWrap(e, "error running decision form", ""),
                             ds.NextStep),
                {"select"}, e)
          : e \in HuhRunErrors \ {NilErr}}
         \cup {Shown(Outcome([k \in {ds.TargetKey} |-> chosenValue], NilErr,
                             IF chosenValue \in DOMAIN ds.NextStepMap
                             THEN ds.NextStepMap[chosenValue] ELSE ds.NextStep),
                     {"select"}, NilErr)
               : chosenValue \in Range(ds.Choices)}

\* The earlier DecisionStep, kept in step.go: no behaviour yet.
DecisionPlaceholderExecute(ds) == {Outcome(EmptyMap, ErrStepNotImplemented, ds.NextStep)}

\* (result, error) of Wizard.ExecuteActionCallback, with the name of the
\* callback it invoked ("" when it invoked none).
ExecuteActionCallbackLenient(actionCallbacks, callbackName) ==
    IF callbackName \notin actionCallbacks
    THEN {[raw |-> NilResult, err |-> NilErr, called |-> ""]}
    ELSE {[raw |-> r.raw, err |-> r.err, called |-> callbackName] :
            r \in ActionCallbackReturns(callbackName)}

ExecuteActionCallback(actionCallbacks, callbackName) ==
    IF actionCallbacks = {}
    THEN {[raw |-> NilResult, err |-> ErrorsErrorf("no action callbacks registered", ""),
           called |-> ""]}
    ELSE IF callbackName \notin actionCallbacks
    THEN {[raw |-> NilResult, err |-> ErrorsErrorf("action callback not registered", callbackName),
           called |-> ""]}
    ELSE {[raw |-> r.raw, err |-> r.err, called |-> callbackName] :
            r \in ActionCallbackReturns(callbackName)}

\* (data, uiHandled) of interpretActionResult.
interpretActionResultNoUnwrap(raw) ==
    CASE raw.kind = "nil" -> [data |-> "nil", uiHandled |-> FALSE]
      [] raw.kind = "map" ->
            IF raw.key \in {"true", "false"}
            THEN [data |-> MapValue(raw.data, FALSE), uiHandled |-> raw.key = "true"]
            ELSE [data |-> MapValue(raw.data, raw.key # "absent"), uiHandled |-> FALSE]
      [] OTHER -> [data |-> raw.kind, uiHandled |-> FALSE]

interpretActionResultIgnoresMapKey(raw) ==
    CASE raw.kind = "nil" -> [data |-> "nil", uiHandled |-> FALSE]
      [] raw.kind = "ActionCallbackResult" -> [data |-> raw.data, uiHandled |-> raw.uiHandled]
      [] raw.kind = "*ActionCallbackResult" ->
            IF raw = NilActionCallbackResultPtr THEN [data |-> "nil", uiHandled |-> FALSE]
            ELSE [data |-> raw.data, uiHandled |-> raw.uiHandled]
      [] raw.kind = "map" ->
            [data |-> MapValue(raw.data, raw.key \notin {"absent", "true", "false"}),
             uiHandled |-> FALSE]
      [] OTHER -> [data |-> raw.data, uiHandled |-> FALSE]

interpretActionResult(raw) ==
    CASE raw.kind = "nil" -> [data |-> "nil", uiHandled |-> FALSE]
      [] raw.kind = "ActionCallbackResult" -> [data |-> raw.data, uiHandled |-> raw.uiHandled]
      [] raw.kind = "*ActionCallbackResult" ->
            IF raw = NilActionCallbackResultPtr THEN [data |-> "nil", uiHandled |-> FALSE]
            ELSE [data |-> raw.data, uiHandled |-> raw.uiHandled]
      [] raw.kind = "map" ->
            IF raw.key \in {"true", "false"}
            THEN [data |-> MapValue(raw.data, FALSE), uiHandled |-> raw.key = "true"]
            ELSE [data |-> MapValue(raw.data, raw.key # "absent"), uiHandled |-> FALSE]
      [] OTHER -> [data |-> raw.data, uiHandled |-> FALSE]

\* boolValue(v, def) of a *bool.
boolValue(v, def) == IF v = "nil" THEN def ELSE v = "true"

\* The progress note ActionStep.Execute starts when show_progress is on.
ProgressShown(as) == IF boolValue(as.ShowProgress, TRUE) THEN {"progress"} ELSE {}

\* The end of ActionStep.Execute: the result stored under the output key and
\* the completion note.
ActionCompleteIgnoresAbort(as, actionResult, uiHandled) ==
    LET stepResult == IF as.OutputKey # "" /\ actionResult # "nil"
                      THEN [k \in {as.OutputKey} |-> actionResult] ELSE EmptyMap
    IN  IF boolValue(as.ShowComplete, TRUE) /\ ~uiHandled
        THEN {Shown(IF e # NilErr /\ ~ErrorsIs(e, HuhErrUserAborted)
                    THEN Outcome(EmptyMap, ErrorsWrap(e, "error showing completion message", ""),
                                 as.NextStep)
                    ELSE Outcome(stepResult, NilErr, as.NextStep),
                    {"completion"}, e)
              : e \in HuhRunErrors}
        ELSE {Outcome(stepResult, NilErr, as.NextStep)}

ActionComplete(as, actionResult, uiHandled) ==
    LET stepResult == IF as.OutputKey # "" /\ actionResult # "nil"
                      THEN [k \in {as.OutputKey} |-> actionResult] ELSE EmptyMap
    IN  IF boolValue(as.ShowComplete, TRUE) /\ ~uiHandled
        THEN {Shown(IF e # NilErr
                    THEN IF ErrorsIs(e, HuhErrUserAborted)
                         THEN Outcome(EmptyMap, ErrUserAborted, as.NextStep)
                         ELSE Outcome(EmptyMap, ErrorsWrap(e, "error showing completion message", ""),
                                      as.NextStep)
                    ELSE Outcome(stepResult, NilErr, as.NextStep),
                    {"completion"}, e)
              : e \in HuhRunErrors}
        ELSE {Outcome(stepResult, NilErr, as.NextStep)}

\* ActionStep.Execute once the registry has returned (raw, err).
ActionAfterCallback(as, r) ==
    LET interpreted == interpretActionResult(r.raw)
    IN  IF r.err # NilErr
        THEN {Outcome(EmptyMap, ErrorsWrap(r.err, "error executing function", as.FunctionName),
                      as.NextStep)}
        ELSE ActionComplete(as, interpreted.data, interpreted.uiHandled)

\* The placeholder result of the simulation.
SimulatedResultMissing(functionName) == "nil"

SimulatedResult(functionName) == "simulated " \o functionName

ActionStepExecute(as, actionCallbacks) ==
    IF as.ActionType # "function"
    THEN {Outcome(EmptyMap, ErrorsErrorf("unsupported action type", as.ActionType), as.NextStep)}
    ELSE IF as.FunctionName = ""
    THEN {Outcome(EmptyMap, ErrorsNew("function name not specified for function-type action"),
                  as.NextStep)}
    ELSE IF as.registry # "nil"
    THEN UNION {{Shown(Called(o, r), ProgressShown(as), o.uiErr) :
                    o \in ActionAfterCallback(as, r)}
                : r \in ExecuteActionCallback(actionCallbacks, as.FunctionName)}
    ELSE {Shown(Simulated(o), ProgressShown(as), o.uiErr) :
            o \in ActionComplete(as, SimulatedResult(as.FunctionName), FALSE)}

\* step.Execute(ctx, wizardState): dispatch on the concrete step type.
Execute(ctx, step, actionCallbacks) ==
    CASE step.StepType = "form" -> FormStepExecute(ctx, step)
      [] step.StepType = "info" -> InfoStepExecute(step)
      [] step.StepType = "summary" -> SummaryStepExecute(step)
      [] step.StepType = "decision" /\ step.Placeholder -> DecisionPlaceholderExecute(step)
      [] step.StepType = "decision" /\ ~step.Placeholder -> DecisionStepExecute(step)
      [] step.StepType = "action" -> ActionStepExecute(step, actionCallbacks)

\* ------------------------------------------------------------------ definitions
StepTypes == {"form", "decision", "action", "info", "summary"}

\* A step list as written in a wizard file: the kinds, with ids by position.
WithIds(kinds) == [i \in 1..Len(kinds) |-> [kinds[i] EXCEPT !.StepID = IdOf[i]]]

StepLists(kinds) == UNION {{WithIds(ks) : ks \in [1..n -> kinds]} : n \in 0..MaxSteps}

\* The ways a step list can be ill-formed: a repeated id, a missing id, an
\* unknown type, a missing type.
Defective(steps) ==
    {[steps EXCEPT ![j].StepID = steps[i].StepID] :
        <<i, j>> \in {p \in (1..Len(steps)) \X (1..Len(steps)) : p[1] < p[2]}}
    \cup {[steps EXCEPT ![i].StepID = ""] : i \in 1..Len(steps)}
    \cup {[steps EXCEPT ![i].StepType = "wizardry"] : i \in 1..Len(steps)}
    \cup {[steps EXCEPT ![i].StepType = ""] : i \in 1..Len(steps)}

StateMaps(keys, vals) == UNION {[d -> vals] : d \in SUBSET keys}

VARIABLES
    yaml,               \* the wizard file: [steps, GlobalState]
    initialStateOpt,    \* the map given to WithInitialState
    initialStateArg,    \* the initialState argument of Run
    registered,         \* the names given to WithCallback / WithActionCallback
    wizard,             \* the *Wizard LoadWizard returned
    loadErr,            \* the error LoadWizard returned
    pc,                 \* where the program is
    currentStepIndex,   \* 0-based, as in Run
    wizardState,
    stepResult,
    nextStepIDOverride,
    runErr,             \* the error Run returned
    iterations,         \* loop iterations of Run begun so far
    events,             \* history: what has been invoked, in order
    seeded,             \* history: wizardState as Run pre-seeded it
    background,         \* the steps whose progress-note goroutine is still running
    cancelledAt,        \* the loop iteration in which ctx was cancelled, or -1
    earlier,            \* history: what the previous Run of this wizard did
    viewer,             \* the shell viewer: its model, its command and its goroutines
    runner              \* the stream runner: its input, its contexts and its goroutines

vars == <<yaml, initialStateOpt, initialStateArg, registered, wizard, loadErr, pc, currentStepIndex,
          wizardState, stepResult, nextStepIDOverride, runErr, iterations, events, seeded,
          background, cancelledAt, earlier, viewer, runner>>

NoWizard == [Steps |-> <<>>, GlobalState |-> EmptyMap, initialState |-> EmptyMap,
             callbacks |-> {}, actionCallbacks |-> {}]

\* No earlier Run of the wizard; no shell viewer launched; no stream runner.
NoRun == [done |-> FALSE, events |-> <<>>, state |-> EmptyMap, err |-> NilErr]
NoViewer == [status |-> "absent", program |-> "absent"]

\* Every step kind in every order with a few state layers, and a few step
\* lists under every combination of state layers.
Init ==
    /\ \/ /\ \E steps \in StepLists(StepKinds) \cup {WithIds(l) : l \in ExtraStepLists} :
                yaml = [steps |-> steps, GlobalState |-> EmptyMap]
          /\ initialStateOpt = EmptyMap
          /\ initialStateArg = EmptyMap
          /\ registered = FullRegistration
       \/ /\ \E l \in ActionStepLists : yaml = [steps |-> WithIds(l), GlobalState |-> EmptyMap]
          /\ initialStateOpt = EmptyMap
          /\ initialStateArg = EmptyMap
          /\ registered \in Registrations
       \/ /\ \E steps \in UNION {Defective(l) : l \in StepLists({FormPlain, ActionDoThing})} :
                yaml = [steps |-> steps, GlobalState |-> EmptyMap]
          /\ initialStateOpt = EmptyMap
          /\ initialStateArg = EmptyMap
          /\ registered = FullRegistration
       \/ /\ \E g \in StateMaps({"flag", "name"}, {"true", "Ada"}) :
                \E l \in {<<FormSkippable, FormPlain>>, <<FormPlain, InfoPlain>>} :
                    yaml = [steps |-> WithIds(l), GlobalState |-> g]
          /\ initialStateOpt \in StateMaps({"flag", "name"}, {"false", "Bob"})
          /\ initialStateArg \in StateMaps({"flag", "name"}, {"true", "Eve"})
          /\ registered = FullRegistration
       \/ /\ \E l \in StatePrefixStepLists : yaml = [steps |-> WithIds(l), GlobalState |-> EmptyMap]
          /\ initialStateOpt = EmptyMap
          /\ initialStateArg \in StatePrefixStates
          /\ registered = FullRegistration
    /\ wizard = NoWizard
    /\ loadErr = NilErr
    /\ pc = "load"
    /\ currentStepIndex = 0
    /\ wizardState = EmptyMap
    /\ stepResult = EmptyMap
    /\ nextStepIDOverride = ""
    /\ runErr = NilErr
    /\ iterations = 0
    /\ events = <<>>
    /\ seeded = EmptyMap
    /\ background = {}
    /\ cancelledAt = -1
    /\ earlier = NoRun
    /\ viewer = NoViewer
    /\ runner = [pc |-> "absent"]

\* ------------------------------------------------------------------ loading
UnmarshalStepErrorAnyType(step, i) ==
    IF step.StepType = "" THEN ErrorsErrorf("step is missing required 'type' field", IdOf[i])
    ELSE IF step.StepID = "" THEN ErrorsErrorf("step is missing required 'id' field", IdOf[i])
    ELSE NilErr

\* The error of decoding step i of the file (Wizard.UnmarshalYAML's loop body).
UnmarshalStepError(step, i) ==
    IF step.StepType = "" THEN ErrorsErrorf("step is missing required 'type' field", IdOf[i])
    ELSE IF step.StepType \notin StepTypes THEN ErrorsErrorf("unknown step type", step.StepType)
    ELSE IF step.StepID = "" THEN ErrorsErrorf("step is missing required 'id' field", IdOf[i])
    ELSE NilErr

\* Wizard.UnmarshalYAML: the error of the first step that does not decode.
UnmarshalYAML(steps) ==
    LET bad == {i \in 1..Len(steps) : UnmarshalStepError(steps[i], i) # NilErr}
    IN  IF bad = {} THEN NilErr
        ELSE LET first == CHOOSE i \in bad : \A j \in bad : i <= j
             IN  UnmarshalStepError(steps[first], first)

\* LoadWizard's loop over the decoded steps: ids present and not repeated.
ValidateStepIDsNoDuplicateCheck(steps) ==
    LET bad == {j \in 1..Len(steps) : steps[j].StepID = ""}
    IN  IF bad = {} THEN NilErr
        ELSE ErrorsErrorf("step is missing required 'id' field", "")

ValidateStepIDs(steps) ==
    LET bad == {j \in 1..Len(steps) :
                    \/ steps[j].StepID = ""
                    \/ \E i \in 1..(j - 1) : steps[i].StepID = steps[j].StepID}
    IN  IF bad = {} THEN NilErr
        ELSE LET first == CHOOSE j \in bad : \A k \in bad : j <= k
             IN  IF steps[first].StepID = ""
                 THEN ErrorsErrorf("step is missing required 'id' field", IdOf[first])
                 ELSE ErrorsErrorf("duplicate step ID found", steps[first].StepID)

\* LoadWizard(filePath, opts...): (*Wizard, error).
LoadWizardResult(file, opt, reg) ==
    LET decodeErr == UnmarshalYAML(file.steps)
        idErr == ValidateStepIDs(file.steps)
    IN  IF decodeErr # NilErr
        THEN [wizard |-> NoWizard,
              err |-> ErrorsWrap(decodeErr, "could not unmarshal wizard YAML", "")]
        ELSE IF idErr # NilErr
        THEN [wizard |-> NoWizard, err |-> idErr]
        ELSE [wizard |-> [Steps |-> file.steps, GlobalState |-> file.GlobalState,
                          initialState |-> opt,
                          callbacks |-> reg.callbacks,
                          actionCallbacks |-> reg.actionCallbacks],
              err |-> NilErr]

LoadWizard ==
    /\ pc = "load"
    /\ LET r == LoadWizardResult(yaml, initialStateOpt, registered)
       IN  /\ wizard' = r.wizard
           /\ loadErr' = r.err
           /\ pc' = IF r.err = NilErr THEN "loaded" ELSE "rejected"
    /\ UNCHANGED <<yaml, initialStateOpt, initialStateArg, registered, background, cancelledAt,
                   earlier, viewer, runner, currentStepIndex, wizardState,
                   stepResult, nextStepIDOverride, runErr, iterations, events, seeded>>

\* ------------------------------------------------------------------ Run
\* The order of the blocks of one loop iteration of Run, after the skip check.
LifecycleMergeBeforeAfter ==
    <<"before", "execute", "merge", "after", "validation", "navigation", "navigate">>

LifecycleMergeAfterNavigation ==
    <<"before", "execute", "after", "validation", "navigation", "merge", "navigate">>

LifecycleMergeAfterValidation ==
    <<"before", "execute", "after", "validation", "merge", "navigation", "navigate">>

Lifecycle == <<"before", "execute", "after", "merge", "validation", "navigation", "navigate">>

\* The block that follows this one.
Following(phase) ==
    Lifecycle[(CHOOSE i \in 1..Len(Lifecycle) : Lifecycle[i] = phase) + 1]

\* A history entry: what was invoked (ev), for which step index and in which
\* loop iteration, the state it was handed (for a merge: the state it left),
\* and what it returned: a result map, an error, a next-step id.
Event(ev, data, err, answer) ==
    [step |-> currentStepIndex, iter |-> iterations, ev |-> ev, state |-> wizardState,
     data |-> data, err |-> err, answer |-> answer,
     shown |-> {}, uiErr |-> NilErr, mode |-> "", called |-> "", raw |-> NilResult,
     cbErr |-> NilErr]

\* The history entry of an executor invocation and its outcome.
ExecuteEvent(o) ==
    [Event("execute", o.result, o.err, "") EXCEPT
        !.shown = o.shown, !.uiErr = o.uiErr, !.mode = o.mode, !.called = o.called,
        !.raw = o.raw, !.cbErr = o.cbErr]

\* The ctx argument of Run, as the callees find it.
Ctx == IF cancelledAt = -1 THEN "live" ELSE "cancelled"

\* The step at the current index.
CurrentStep == wizard.Steps[currentStepIndex + 1]

\* Run returns (wizardState, err).
Return(err) ==
    /\ runErr' = err
    /\ pc' = "done"

\* The three layers merged into a fresh map, in increasing precedence.
PreSeedArgFirst(w, arg) == MergeInto(MergeInto(arg, w.GlobalState), w.initialState)

PreSeedIntoReturnedMap(w, arg) ==
    MergeInto(MergeInto(MergeInto(wizardState, w.GlobalState), w.initialState), arg)

PreSeed(w, arg) == MergeInto(MergeInto(MergeInto(EmptyMap, w.GlobalState), w.initialState), arg)

\* actionStep.SetCallbackRegistry(w) on the steps that are action steps.
SetCallbackRegistry(steps, which) ==
    [i \in 1..Len(steps) |->
        IF i \in which /\ steps[i].StepType = "action"
        THEN [steps[i] EXCEPT !.registry = "wizard"] ELSE steps[i]]

\* Run, up to the loop: state initialisation and the action-step registries.
RunStart ==
    /\ pc = "loaded"
    /\ wizardState' = PreSeed(wizard, initialStateArg)
    /\ seeded' = PreSeed(wizard, initialStateArg)
    /\ wizard' = [wizard EXCEPT !.Steps = SetCallbackRegistry(wizard.Steps, 1..Len(wizard.Steps))]
    /\ currentStepIndex' = 0
    /\ pc' = "loop"
    /\ UNCHANGED <<yaml, initialStateOpt, initialStateArg, registered, background, cancelledAt,
                   earlier, viewer, runner, loadErr, stepResult,
                   nextStepIDOverride, runErr, iterations, events>>

\* The loop condition fails: Run returns (wizardState, nil).
RunFinish ==
    /\ pc = "loop"
    /\ ~(currentStepIndex < Len(wizard.Steps))
    /\ Return(NilErr)
    /\ UNCHANGED <<yaml, initialStateOpt, initialStateArg, registered, background, cancelledAt,
                   earlier, viewer, runner, wizard, loadErr, currentStepIndex,
                   wizardState, stepResult, nextStepIDOverride, iterations, events, seeded>>

\* Whether the skip check skips the step: only a condition that evaluates,
\* and to true.
ShouldSkipInverted(step, state) ==
    /\ step.StepSkipCondition.text # ""
    /\ LET r == evaluateExprCondition(step.StepSkipCondition, state)
       IN  r.err = NilErr /\ ~r.value

ShouldSkipOnError(step, state) ==
    /\ step.StepSkipCondition.text # ""
    /\ LET r == evaluateExprCondition(step.StepSkipCondition, state)
       IN  r.err # NilErr \/ r.value

ShouldSkip(step, state) ==
    /\ step.StepSkipCondition.text # ""
    /\ LET r == evaluateExprCondition(step.StepSkipCondition, state)
       IN  r.err = NilErr /\ r.value

\* The head of one loop iteration: the override is reset and the skip
\* condition checked.
SkipCheck ==
    /\ pc = "loop"
    /\ currentStepIndex < Len(wizard.Steps)
    /\ iterations < MaxIter
    /\ iterations' = iterations + 1
    /\ nextStepIDOverride' = ""
    /\ IF ShouldSkip(CurrentStep, wizardState)
       THEN /\ currentStepIndex' = currentStepIndex + 1
            /\ pc' = "loop"
            /\ events' = Append(events,
                    [Event("skip", EmptyMap, NilErr, "") EXCEPT !.iter = iterations + 1])
       ELSE /\ pc' = Lifecycle[1]
            /\ UNCHANGED <<currentStepIndex, events>>
    /\ UNCHANGED <<yaml, initialStateOpt, initialStateArg, registered, background, cancelledAt,
                   earlier, viewer, runner, wizard, loadErr, wizardState,
                   stepResult, runErr, seeded>>

\* What a registered callback does to the state map it is handed: "stamp"
\* writes a key of its own, any other callback only reads.
CallbackWrites(name, state) ==
    IF name = "stamp" THEN MergeInto(state, [stamp |-> "yes"]) ELSE state

\* What a lifecycle callback may return as its error.
CallbackFailed == ErrorsNew("callback failed")
CallbackErrors == {NilErr, CallbackFailed}

\* One of the before / after / validation blocks of Run: the named callback,
\* when registered, is invoked with the state; its error ends Run, anything
\* else it returns is dropped.
InvokeCallbackIgnoringError(name, slot, nextPc) ==
    \/ /\ name = "" \/ name \notin wizard.callbacks
       /\ pc' = nextPc
       /\ UNCHANGED <<events, runErr, wizardState>>
    \/ /\ name # ""
       /\ name \in wizard.callbacks
       /\ \E err \in CallbackErrors :
            /\ events' = Append(events, Event(slot, EmptyMap, err, ""))
            /\ wizardState' = CallbackWrites(name, wizardState)
            /\ pc' = nextPc
            /\ UNCHANGED runErr

InvokeCallbackStrict(name, slot, nextPc) ==
    \/ /\ name = ""
       /\ pc' = nextPc
       /\ UNCHANGED <<events, runErr, wizardState>>
    \/ /\ name # ""
       /\ name \notin wizard.callbacks
       /\ Return(ErrorsErrorf("callback not registered", name))
       /\ UNCHANGED <<events, wizardState>>
    \/ /\ name # ""
       /\ name \in wizard.callbacks
       /\ \E err \in CallbackErrors :
            /\ events' = Append(events, Event(slot, EmptyMap, err, ""))
            /\ wizardState' = CallbackWrites(name, wizardState)
            /\ IF err # NilErr
               THEN Return(ErrorsWrap(err, slot, name))
               ELSE pc' = nextPc /\ UNCHANGED runErr

InvokeCallback(name, slot, nextPc) ==
    \/ /\ name = "" \/ name \notin wizard.callbacks
       /\ pc' = nextPc
       /\ UNCHANGED <<events, runErr, wizardState>>
    \/ /\ name # ""
       /\ name \in wizard.callbacks
       /\ \E err \in CallbackErrors :
            /\ events' = Append(events, Event(slot, EmptyMap, err, ""))
            /\ wizardState' = CallbackWrites(name, wizardState)
            /\ IF err # NilErr
               THEN Return(ErrorsWrap(err, slot, name))
               ELSE pc' = nextPc /\ UNCHANGED runErr

BeforeCallback ==
    /\ pc = "before"
    /\ InvokeCallback(CurrentStep.StepBeforeCallback, "before", Following("before"))
    /\ UNCHANGED <<yaml, initialStateOpt, initialStateArg, registered, background, cancelledAt,
                   earlier, viewer, runner, wizard, loadErr, currentStepIndex,
                   stepResult, nextStepIDOverride, iterations, seeded>>

\* What Run does with the (stepResult, err) of step.Execute: "return" with
\* the error Run returns, or "continue" with the result to merge.
HandleExecuteAbortIsFatal(o, index, stepID) ==
    IF o.err # NilErr
    THEN IF ErrorsIs(o.err, ErrStepNotImplemented)
         THEN [do |-> "continue", result |-> EmptyMap, err |-> NilErr]
         ELSE [do |-> "return", result |-> EmptyMap,
               err |-> ErrorsWrapDropChain(o.err, "error executing step", stepID)]
    ELSE [do |-> "continue", result |-> o.result, err |-> NilErr]

HandleExecuteNotImplementedIsFatal(o, index, stepID) ==
    IF o.err # NilErr
    THEN IF ErrorsIs(o.err, ErrUserAborted)
         THEN [do |-> "return", result |-> EmptyMap, err |-> o.err]
         ELSE [do |-> "return", result |-> EmptyMap,
               err |-> ErrorsWrap(o.err, "error executing step", stepID)]
    ELSE [do |-> "continue", result |-> o.result, err |-> NilErr]

HandleExecuteOtherErrorContinues(o, index, stepID) ==
    IF o.err # NilErr
    THEN IF ErrorsIs(o.err, ErrUserAborted)
         THEN [do |-> "return", result |-> EmptyMap, err |-> o.err]
         ELSE [do |-> "continue", result |-> EmptyMap, err |-> NilErr]
    ELSE [do |-> "continue", result |-> o.result, err |-> NilErr]

HandleExecute(o, index, stepID) ==
    IF o.err # NilErr
    THEN IF ErrorsIs(o.err, ErrUserAborted)
         THEN [do |-> "return", result |-> EmptyMap, err |-> o.err]
         ELSE IF ErrorsIs(o.err, ErrStepNotImplemented)
         THEN [do |-> "continue", result |-> EmptyMap, err |-> NilErr]
         ELSE [do |-> "return", result |-> EmptyMap,
               err |-> ErrorsWrap(o.err, "error executing step", stepID)]
    ELSE [do |-> "continue", result |-> o.result, err |-> NilErr]

\* The goroutines an executor started and did not wait for: the one that
\* runs the progress note of an action step.
StartedGoroutines(o, index) == IF "progress" \in o.shown THEN {index} ELSE {}

\* step.Execute(ctx, wizardState) and the error handling that follows it.
ExecuteStep ==
    /\ pc = "execute"
    /\ \E o \in Execute(Ctx, CurrentStep, wizard.actionCallbacks) :
        LET h == HandleExecute(o, currentStepIndex, CurrentStep.StepID)
        IN  /\ events' = Append(events, ExecuteEvent(o))
            /\ wizard' = [wizard EXCEPT !.Steps[currentStepIndex + 1].NextStep = o.nextStep]
            /\ background' = background \cup StartedGoroutines(o, currentStepIndex)
            /\ stepResult' = h.result
            /\ IF h.do = "return"
               THEN Return(h.err)
               ELSE pc' = Following("execute") /\ UNCHANGED runErr
    /\ UNCHANGED <<yaml, initialStateOpt, initialStateArg, registered, cancelledAt,
                   earlier, viewer, runner, loadErr, currentStepIndex,
                   wizardState, nextStepIDOverride, iterations, seeded>>

\* The note.Run() of a progress goroutine returns and the goroutine ends.
ProgressNoteReturns ==
    /\ \E index \in background : background' = background \ {index}
    /\ UNCHANGED <<yaml, initialStateOpt, initialStateArg, registered, cancelledAt,
                   earlier, viewer, runner, wizard, loadErr, pc, currentStepIndex, wizardState, stepResult,
                   nextStepIDOverride, runErr, iterations, events, seeded>>

AfterCallback ==
    /\ pc = "after"
    /\ InvokeCallback(CurrentStep.StepAfterCallback, "after", Following("after"))
    /\ UNCHANGED <<yaml, initialStateOpt, initialStateArg, registered, background, cancelledAt,
                   earlier, viewer, runner, wizard, loadErr, currentStepIndex,
                   stepResult, nextStepIDOverride, iterations, seeded>>

\* for k, v := range stepResult { wizardState[k] = v }
MergeStepResultIntoGlobalState ==
    /\ pc = "merge"
    /\ wizardState' = MergeInto(wizardState, stepResult)
    /\ wizard' = [wizard EXCEPT !.GlobalState = MergeInto(wizardState, stepResult)]
    /\ events' = Append(events,
            [Event("merge", stepResult, NilErr, "") EXCEPT
                !.state = MergeInto(wizardState, stepResult)])
    /\ pc' = Following("merge")
    /\ UNCHANGED <<yaml, initialStateOpt, initialStateArg, registered, background, cancelledAt,
                   earlier, viewer, runner, loadErr, currentStepIndex,
                   stepResult, nextStepIDOverride, runErr, iterations, seeded>>

MergeStepResult ==
    /\ pc = "merge"
    /\ wizardState' = MergeInto(wizardState, stepResult)
    /\ events' = Append(events,
            [Event("merge", stepResult, NilErr, "") EXCEPT
                !.state = MergeInto(wizardState, stepResult)])
    /\ pc' = Following("merge")
    /\ UNCHANGED <<yaml, initialStateOpt, initialStateArg, registered, background, cancelledAt,
                   earlier, viewer, runner, wizard, loadErr, currentStepIndex,
                   stepResult, nextStepIDOverride, runErr, iterations, seeded>>

ValidationCallback ==
    /\ pc = "validation"
    /\ InvokeCallback(CurrentStep.StepValidationCallback, "validation", Following("validation"))
    /\ UNCHANGED <<yaml, initialStateOpt, initialStateArg, registered, background, cancelledAt,
                   earlier, viewer, runner, wizard, loadErr, currentStepIndex,
                   stepResult, nextStepIDOverride, iterations, seeded>>

\* The navigation callback block: a registered callback's non-nil
\* nextStepID is captured as the override.
NavigationCallback ==
    /\ pc = "navigation"
    /\ LET name == CurrentStep.StepNavigationCallback
       IN  \/ /\ name = "" \/ name \notin wizard.callbacks
              /\ pc' = Following("navigation")
              /\ UNCHANGED <<events, runErr, nextStepIDOverride, wizardState>>
           \/ /\ name # ""
              /\ name \in wizard.callbacks
              /\ wizardState' = CallbackWrites(name, wizardState)
              /\ \/ /\ events' = Append(events, Event("navigation", EmptyMap, CallbackFailed, "nil"))
                    /\ Return(ErrorsWrap(CallbackFailed, "navigation", name))
                    /\ UNCHANGED nextStepIDOverride
                 \/ \E nextStepIDPtr \in NavAnswers :
                        /\ events' = Append(events,
                                Event("navigation", EmptyMap, NilErr, nextStepIDPtr))
                        /\ nextStepIDOverride' =
                              IF nextStepIDPtr # "nil" THEN nextStepIDPtr ELSE nextStepIDOverride
                        /\ pc' = Following("navigation")
                        /\ UNCHANGED runErr
    /\ UNCHANGED <<yaml, initialStateOpt, initialStateArg, registered, background, cancelledAt,
                   earlier, viewer, runner, wizard, loadErr, currentStepIndex,
                   stepResult, iterations, seeded>>

\* The 0-based index of the first step with this id, or -1.
FindStepOrEnd(steps, id) ==
    LET hits == {i \in 1..Len(steps) : steps[i].StepID = id}
    IN  IF hits = {} THEN Len(steps)
        ELSE (CHOOSE i \in hits : \A j \in hits : j <= i) - 1

FindStepOneBased(steps, id) ==
    LET hits == {i \in 1..Len(steps) : steps[i].StepID = id}
    IN  IF hits = {} THEN -1
        ELSE CHOOSE i \in hits : \A j \in hits : i <= j

FindStep(steps, id) ==
    LET hits == {i \in 1..Len(steps) : steps[i].StepID = id}
    IN  IF hits = {} THEN -1
        ELSE (CHOOSE i \in hits : \A j \in hits : i <= j) - 1

\* The navigation logic: the override's step, or the next step in the list.
NavigateRepeatsStep ==
    /\ pc = "navigate"
    /\ events' = Append(events, Event("navigate", EmptyMap, NilErr, nextStepIDOverride))
    /\ IF nextStepIDOverride # ""
       THEN LET foundIndex == FindStep(wizard.Steps, nextStepIDOverride)
            IN  IF foundIndex = -1
                THEN /\ Return(ErrorsErrorf(
                            "navigation callback requested jump to non-existent step ID",
                            nextStepIDOverride))
                     /\ UNCHANGED currentStepIndex
                ELSE /\ currentStepIndex' = foundIndex
                     /\ pc' = "loop"
                     /\ UNCHANGED runErr
       ELSE /\ currentStepIndex' = currentStepIndex
            /\ pc' = "loop"
            /\ UNCHANGED runErr
    /\ UNCHANGED <<yaml, initialStateOpt, initialStateArg, registered, background, cancelledAt,
                   earlier, viewer, runner, wizard, loadErr, wizardState,
                   stepResult, nextStepIDOverride, iterations, seeded>>

Navigate ==
    /\ pc = "navigate"
    /\ events' = Append(events, Event("navigate", EmptyMap, NilErr, nextStepIDOverride))
    /\ IF nextStepIDOverride # ""
       THEN LET foundIndex == FindStep(wizard.Steps, nextStepIDOverride)
            IN  IF foundIndex = -1
                THEN /\ Return(ErrorsErrorf(
                            "navigation callback requested jump to non-existent step ID",
                            nextStepIDOverride))
                     /\ UNCHANGED currentStepIndex
                ELSE /\ currentStepIndex' = foundIndex
                     /\ pc' = "loop"
                     /\ UNCHANGED runErr
       ELSE /\ currentStepIndex' = currentStepIndex + 1
            /\ pc' = "loop"
            /\ UNCHANGED runErr
    /\ UNCHANGED <<yaml, initialStateOpt, initialStateArg, registered, background, cancelledAt,
                   earlier, viewer, runner, wizard, loadErr, wizardState,
                   stepResult, nextStepIDOverride, iterations, seeded>>

Next ==
    \/ LoadWizard
    \/ RunStart
    \/ RunFinish
    \/ SkipCheck
    \/ BeforeCallback
    \/ ExecuteStep
    \/ AfterCallback
    \/ MergeStepResult
    \/ ValidationCallback
    \/ NavigationCallback
    \/ Navigate
    \/ ProgressNoteReturns

Spec == Init /\ [][Next]_vars

\* ------------------------------------------------------------------ cancellation
\* The caller that cancels the context it gave to Run, and the wizard files
\* it runs.
CancelStepLists ==
    {<<InfoPlain, InfoPlain>>, <<FormPlain, SummaryPlain>>, <<InfoPlain, FormPlain>>,
     <<DecisionXY, SummaryHooked>>, <<ActionDoThing, FormPlain, InfoPlain>>}

CancelInit ==
    /\ \E l \in CancelStepLists : yaml = [steps |-> WithIds(l), GlobalState |-> EmptyMap]
    /\ initialStateOpt = EmptyMap
    /\ initialStateArg = EmptyMap
    /\ registered = FullRegistration
    /\ wizard = NoWizard
    /\ loadErr = NilErr
    /\ pc = "load"
    /\ currentStepIndex = 0
    /\ wizardState = EmptyMap
    /\ stepResult = EmptyMap
    /\ nextStepIDOverride = ""
    /\ runErr = NilErr
    /\ iterations = 0
    /\ events = <<>>
    /\ seeded = EmptyMap
    /\ background = {}
    /\ cancelledAt = -1
    /\ earlier = NoRun
    /\ viewer = NoViewer
    /\ runner = [pc |-> "absent"]

\* cancel(): the context is cancelled, before Run or while it is running.
CancelContext ==
    /\ pc \notin {"load", "rejected", "done"}
    /\ cancelledAt = -1
    /\ cancelledAt' = iterations
    /\ UNCHANGED <<yaml, initialStateOpt, initialStateArg, registered, background,
                   earlier, viewer, runner, wizard, loadErr, pc, currentStepIndex, wizardState, stepResult,
                   nextStepIDOverride, runErr, iterations, events, seeded>>

CancelNext ==
    \/ LoadWizard
    \/ RunStart
    \/ RunFinish
    \/ SkipCheck
    \/ BeforeCallback
    \/ ExecuteStep
    \/ AfterCallback
    \/ MergeStepResult
    \/ ValidationCallback
    \/ NavigationCallback
    \/ Navigate
    \/ ProgressNoteReturns
    \/ CancelContext

CancelSpec == CancelInit /\ [][CancelNext]_vars

\* ------------------------------------------------------------------ callbacks that write
\* A caller that registers a callback that writes to the map it is handed,
\* and the wizard files it runs.
WritingRegistration == Registration(RegisteredCallbacks \cup {"stamp"}, RegisteredActionCallbacks)
LiveMapStepLists ==
    {<<FormStamped, InfoPlain>>, <<InfoStamped, FormPlain>>, <<FormSkippable, InfoStamped>>,
     <<FormStamped, InfoStamped>>, <<ActionDoThing, InfoStamped>>}

LiveMapInit ==
    /\ \E l \in LiveMapStepLists : yaml = [steps |-> WithIds(l), GlobalState |-> EmptyMap]
    /\ initialStateOpt = EmptyMap
    /\ initialStateArg = EmptyMap
    /\ registered = WritingRegistration
    /\ wizard = NoWizard
    /\ loadErr = NilErr
    /\ pc = "load"
    /\ currentStepIndex = 0
    /\ wizardState = EmptyMap
    /\ stepResult = EmptyMap
    /\ nextStepIDOverride = ""
    /\ runErr = NilErr
    /\ iterations = 0
    /\ events = <<>>
    /\ seeded = EmptyMap
    /\ background = {}
    /\ cancelledAt = -1
    /\ earlier = NoRun
    /\ viewer = NoViewer
    /\ runner = [pc |-> "absent"]

LiveMapSpec == LiveMapInit /\ [][Next]_vars

\* ------------------------------------------------------------------ running twice
\* A caller that runs the wizard it loaded a second time, with the same
\* initialState argument, and the wizard files it runs.
ReplayStepLists ==
    {<<FormSkippable, DecisionXY>>, <<DecisionXY, InfoPlain, FormPlain>>,
     <<FormPlain, SummaryHooked>>, <<ActionDoThing, FormSkippable>>}

ReplayInit ==
    /\ \E l \in ReplayStepLists : yaml = [steps |-> WithIds(l), GlobalState |-> EmptyMap]
    /\ initialStateOpt = EmptyMap
    /\ initialStateArg \in {EmptyMap, [flag |-> "true"]}
    /\ registered = FullRegistration
    /\ wizard = NoWizard
    /\ loadErr = NilErr
    /\ pc = "load"
    /\ currentStepIndex = 0
    /\ wizardState = EmptyMap
    /\ stepResult = EmptyMap
    /\ nextStepIDOverride = ""
    /\ runErr = NilErr
    /\ iterations = 0
    /\ events = <<>>
    /\ seeded = EmptyMap
    /\ background = {}
    /\ cancelledAt = -1
    /\ earlier = NoRun
    /\ viewer = NoViewer
    /\ runner = [pc |-> "absent"]

\* Run has returned (wizardState, runErr); the caller keeps them and calls Run
\* again on the same *Wizard.
RunAgain ==
    /\ pc = "done"
    /\ ~earlier.done
    /\ earlier' = [done |-> TRUE, events |-> events, state |-> wizardState, err |-> runErr]
    /\ pc' = "loaded"
    /\ events' = <<>>
    /\ iterations' = 0
    /\ runErr' = NilErr
    /\ stepResult' = EmptyMap
    /\ nextStepIDOverride' = ""
    /\ UNCHANGED <<yaml, initialStateOpt, initialStateArg, registered, background, cancelledAt,
                   viewer, runner, wizard, loadErr, currentStepIndex, wizardState, seeded>>

ReplayNext ==
    \/ LoadWizard
    \/ RunStart
    \/ RunFinish
    \/ SkipCheck
    \/ BeforeCallback
    \/ ExecuteStep
    \/ AfterCallback
    \/ MergeStepResult
    \/ ValidationCallback
    \/ NavigationCallback
    \/ Navigate
    \/ ProgressNoteReturns
    \/ RunAgain

ReplaySpec == ReplayInit /\ [][ReplayNext]_vars

\* The same caller with wizard files that have a global_state, with
\* WithInitialState and with an initialState argument.
LayeredReplayStepLists == {<<FormSkippable, FormPlain>>, <<ActionDoThing, FormPlain>>}

LayeredReplayInit ==
    /\ \E l \in LayeredReplayStepLists : \E g \in {EmptyMap, [name |-> "Zoe", flag |-> "false"]} :
            yaml = [steps |-> WithIds(l), GlobalState |-> g]
    /\ initialStateOpt \in {EmptyMap, [name |-> "Bob"]}
    /\ initialStateArg \in {EmptyMap, [flag |-> "true"], [flag |-> "no"]}
    /\ registered = FullRegistration
    /\ wizard = NoWizard
    /\ loadErr = NilErr
    /\ pc = "load"
    /\ currentStepIndex = 0
    /\ wizardState = EmptyMap
    /\ stepResult = EmptyMap
    /\ nextStepIDOverride = ""
    /\ runErr = NilErr
    /\ iterations = 0
    /\ events = <<>>
    /\ seeded = EmptyMap
    /\ background = {}
    /\ cancelledAt = -1
    /\ earlier = NoRun
    /\ viewer = NoViewer
    /\ runner = [pc |-> "absent"]

LayeredReplaySpec == LayeredReplayInit /\ [][ReplayNext]_vars

\* ------------------------------------------------------------------ calls that return
\* Run when every call it makes returns: the loader, the executors, the
\* callbacks and the progress notes each take their step in the end.  The
\* wizard files: steps that are skipped, steps with and without navigation
\* callbacks, an action step.
ReturningStepLists ==
    {<<FormSkippable, InfoPlain, SummaryPlain>>, <<FormPlain, SummaryHooked>>,
     <<InfoHooked, FormSkippable, FormPlain>>, <<ActionDoThing, DecisionXY, InfoPlain>>,
     <<FormUnregistered, SummaryPlain>>}

ReturningInit ==
    /\ \E l \in ReturningStepLists : yaml = [steps |-> WithIds(l), GlobalState |-> EmptyMap]
    /\ initialStateOpt = EmptyMap
    /\ initialStateArg \in {EmptyMap, [flag |-> "true"]}
    /\ registered = FullRegistration
    /\ wizard = NoWizard
    /\ loadErr = NilErr
    /\ pc = "load"
    /\ currentStepIndex = 0
    /\ wizardState = EmptyMap
    /\ stepResult = EmptyMap
    /\ nextStepIDOverride = ""
    /\ runErr = NilErr
    /\ iterations = 0
    /\ events = <<>>
    /\ seeded = EmptyMap
    /\ background = {}
    /\ cancelledAt = -1
    /\ earlier = NoRun
    /\ viewer = NoViewer
    /\ runner = [pc |-> "absent"]

ReturningSpec == ReturningInit /\ [][Next]_vars /\ WF_vars(Next)

\* ------------------------------------------------------------------ steps called directly
\* The action steps a wizard file can define, and the callbacks a caller
\* registers for them.
ActionStepKinds ==
    {[BaseStep("action") EXCEPT !.ActionType = t, !.FunctionName = f, !.OutputKey = k,
                                !.ShowProgress = sp, !.ShowComplete = sc] :
        t \in {"function", "api_call"},
        f \in {"", "doThing", "runShell", "collect", "ghost"},
        k \in {"", "out"},
        sp \in {"nil", "false"},
        sc \in {"nil", "true", "false"}}

AllActionCallbacks == {"doThing", "runShell", "collect"}

\* The decision steps a wizard file can define.
DecisionStepKinds ==
    {[BaseStep("decision") EXCEPT !.TargetKey = k, !.Choices = c, !.NextStepMap = m] :
        k \in {"", "choice"},
        c \in {<<>>, <<"x">>, <<"x", "y">>},
        m \in {NoNextStepMap, [v \in {"x"} |-> IdOf[2]]}}

\* A wizard file of one action or decision step, loaded with or without
\* action callbacks.
StepInit ==
    /\ \E st \in ActionStepKinds \cup DecisionStepKinds :
            yaml = [steps |-> WithIds(<<st>>), GlobalState |-> EmptyMap]
    /\ initialStateOpt = EmptyMap
    /\ initialStateArg = EmptyMap
    /\ registered \in {Registration({}, {}), Registration({}, AllActionCallbacks)}
    /\ wizard = NoWizard
    /\ loadErr = NilErr
    /\ pc = "load"
    /\ currentStepIndex = 0
    /\ wizardState = EmptyMap
    /\ stepResult = EmptyMap
    /\ nextStepIDOverride = ""
    /\ runErr = NilErr
    /\ iterations = 0
    /\ events = <<>>
    /\ seeded = EmptyMap
    /\ background = {}
    /\ cancelledAt = -1
    /\ earlier = NoRun
    /\ viewer = NoViewer
    /\ runner = [pc |-> "absent"]

\* The caller attaches the wizard to a step as its callback registry.
AttachRegistry ==
    /\ pc = "loaded"
    /\ \E i \in 1..Len(wizard.Steps) :
        /\ wizard.Steps[i].StepType = "action"
        /\ wizard.Steps[i].registry = "nil"
        /\ wizard' = [wizard EXCEPT !.Steps = SetCallbackRegistry(wizard.Steps, {i})]
    /\ UNCHANGED <<yaml, initialStateOpt, initialStateArg, registered, background, cancelledAt,
                   earlier, viewer, runner, loadErr, pc,
                   currentStepIndex, wizardState, stepResult, nextStepIDOverride, runErr,
                   iterations, events, seeded>>

\* The caller calls step.Execute(ctx, state) itself and keeps what it returns.
ExecuteDirectly ==
    /\ pc = "loaded"
    /\ iterations < MaxCalls
    /\ \E i \in 1..Len(wizard.Steps) :
        \E o \in Execute(Ctx, wizard.Steps[i], wizard.actionCallbacks) :
            /\ events' = Append(events,
                    [ExecuteEvent(o) EXCEPT !.step = i - 1, !.iter = iterations + 1])
            /\ stepResult' = o.result
            /\ runErr' = o.err
            /\ wizard' = [wizard EXCEPT !.Steps[i].NextStep = o.nextStep]
            /\ background' = background \cup StartedGoroutines(o, i - 1)
            /\ currentStepIndex' = i - 1
    /\ iterations' = iterations + 1
    /\ UNCHANGED <<yaml, initialStateOpt, initialStateArg, registered, cancelledAt,
                   earlier, viewer, runner, loadErr, pc,
                   wizardState, nextStepIDOverride, seeded>>

StepNext ==
    \/ LoadWizard
    \/ AttachRegistry
    \/ ExecuteDirectly
    \/ ProgressNoteReturns

StepSpec == StepInit /\ [][StepNext]_vars

\* ------------------------------------------------------------------ shell viewer
\* The viewer of shellcmd: a Bubble Tea program whose model collects the
\* output of a command.  The command writes lines to two pipes; one goroutine
\* per pipe reads a line at a time and one waits for the command; each sends
\* what it found to the program as a message, and Update handles the messages
\* one at a time, in the order the program receives them.
Streams == {"stdout", "stderr"}

\* The lines a command writes to a stream: at most MaxLines of them.
MaxLines == 2
Lines(stream, n) == [i \in 1..n |-> <<stream, i>>]
Scripts ==
    {[s \in Streams |-> Lines(s, IF s = "stdout" THEN n ELSE m)] :
        n \in 0..MaxLines, m \in 0..1}

\* The errors of the viewer's collaborators.
ExitError == ErrorsNew("exit status")
ErrClosed == ErrorsNew("read: file already closed")
StartError == ErrorsNew("exec: start failed")

\* exitStatusFromError(err), for the errors cmd.Wait and cmd.Start return:
\* code is the status the process exited with.
exitStatusFromError(err, code) ==
    IF err = NilErr THEN 0 ELSE IF ErrorsIs(err, ExitError) THEN code ELSE 1

\* The messages of the program.
appendOutputMsg(stream, text) ==
    [type |-> "appendOutput", stream |-> stream, text |-> text, exitCode |-> 0, err |-> NilErr]
streamClosedMsg(stream) ==
    [type |-> "streamClosed", stream |-> stream, text |-> <<>>, exitCode |-> 0, err |-> NilErr]
streamErrMsg(stream, err) ==
    [type |-> "streamErr", stream |-> stream, text |-> <<>>, exitCode |-> 0, err |-> err]
commandFinishedMsg(exitCode, err) ==
    [type |-> "commandFinished", stream |-> "", text |-> <<>>, exitCode |-> exitCode, err |-> err]
commandStartFailedMsg(err) ==
    [type |-> "commandStartFailed", stream |-> "", text |-> <<>>, exitCode |-> 0, err |-> err]
QuitMsg ==
    [type |-> "quit", stream |-> "", text |-> <<>>, exitCode |-> 0, err |-> NilErr]

NoResult == [ExitCode |-> 0, Output |-> <<>>, Err |-> NilErr]

\* newModel(ctx, cmdStr, opts), with the command it is about to run: the
\* model's fields, then the command (what it still has to write, what is in
\* its pipes, whether it has exited and with which status, whether Wait has
\* closed the read ends), the goroutines, the messages sent and not yet
\* handled, what Run and RunActionCallback returned, and, for the record, the
\* keys that asked the viewer to close.
newModel(keepOpen, script) ==
    [status |-> "init", keepOpen |-> keepOpen, exitCode |-> 0, err |-> NilErr,
     plainBuffer |-> <<>>,
     reader |-> [s \in Streams |-> "nil"], closed |-> [s \in Streams |-> FALSE],
     program |-> "new",
     toWrite |-> script, written |-> [s \in Streams |-> <<>>],
     pipe |-> [s \in Streams |-> <<>>],
     process |-> "none", code |-> 0, interrupted |-> FALSE, readEndsClosed |-> FALSE,
     reading |-> {}, waiting |-> FALSE, msgs |-> {},
     result |-> NoResult, callbackErr |-> NilErr, keys |-> {}]

\* The viewer is launched outside any wizard run.
ViewerInit ==
    /\ yaml = [steps |-> <<>>, GlobalState |-> EmptyMap]
    /\ initialStateOpt = EmptyMap
    /\ initialStateArg = EmptyMap
    /\ registered = Registration({}, {})
    /\ wizard = NoWizard
    /\ loadErr = NilErr
    /\ pc = "viewer"
    /\ currentStepIndex = 0
    /\ wizardState = EmptyMap
    /\ stepResult = EmptyMap
    /\ nextStepIDOverride = ""
    /\ runErr = NilErr
    /\ iterations = 0
    /\ events = <<>>
    /\ seeded = EmptyMap
    /\ background = {}
    /\ cancelledAt = -1
    /\ earlier = NoRun
    /\ \E keepOpen \in BOOLEAN, script \in Scripts : viewer = newModel(keepOpen, script)
    /\ runner = [pc |-> "absent"]

\* The viewer's actions touch nothing of the wizard.
ViewerOnly ==
    UNCHANGED <<yaml, initialStateOpt, initialStateArg, registered, wizard, loadErr, pc,
                currentStepIndex, wizardState, stepResult, nextStepIDOverride, runErr,
                iterations, events, seeded, background, cancelledAt, earlier, runner>>

\* model.Init: startCommand, then the two readers and the waiter are
\* started; or the command does not start and Init says so.
ViewerStart ==
    /\ viewer.program = "new"
    /\ \/ viewer' = [viewer EXCEPT !.program = "running", !.status = "running",
                                   !.process = "running",
                                   !.reader = [s \in Streams |-> "set"],
                                   !.reading = Streams, !.waiting = TRUE]
       \/ viewer' = [viewer EXCEPT !.program = "running", !.status = "running",
                                   !.msgs = {commandStartFailedMsg(StartError)}]
    /\ ViewerOnly

\* The command writes its next line to one of its pipes.
ProcessWrites ==
    /\ viewer.process = "running"
    /\ ~viewer.interrupted
    /\ \E s \in Streams :
        /\ viewer.toWrite[s] # <<>>
        /\ viewer' = [viewer EXCEPT !.toWrite[s] = Tail(viewer.toWrite[s]),
                                    !.written[s] = Append(viewer.written[s], Head(viewer.toWrite[s])),
                                    !.pipe[s] = Append(viewer.pipe[s], Head(viewer.toWrite[s]))]
    /\ ViewerOnly

\* The command exits: with a status of its choice once it has written
\* everything, or killed by the interrupt signal.
ProcessExits ==
    /\ viewer.process = "running"
    /\ \/ /\ viewer.interrupted
          /\ viewer' = [viewer EXCEPT !.process = "exited", !.code = -1]
       \/ /\ ~viewer.interrupted
          /\ \A s \in Streams : viewer.toWrite[s] = <<>>
          /\ \E code \in {0, 1} : viewer' = [viewer EXCEPT !.process = "exited", !.code = code]
    /\ ViewerOnly

\* The function readStdoutCmd / readStderrCmd returned: one ReadString on the
\* stream's reader.  A line that is there is returned; at the end of the
\* stream it is io.EOF; once Wait has closed the read end, a read that finds
\* its buffer empty fails, whatever the command had written.
ReadLine ==
    /\ \E s \in viewer.reading :
        \/ /\ viewer.pipe[s] # <<>>
           /\ viewer' = [viewer EXCEPT !.reading = viewer.reading \ {s},
                                       !.pipe[s] = Tail(viewer.pipe[s]),
                                       !.msgs = viewer.msgs \cup
                                                {appendOutputMsg(s, Head(viewer.pipe[s]))}]
        \/ /\ viewer.readEndsClosed
           /\ viewer' = [viewer EXCEPT !.reading = viewer.reading \ {s},
                                       !.pipe[s] = <<>>,
                                       !.msgs = viewer.msgs \cup {streamErrMsg(s, ErrClosed)}]
        \/ /\ ~viewer.readEndsClosed
           /\ viewer.pipe[s] = <<>>
           /\ viewer.process = "exited"
           /\ viewer' = [viewer EXCEPT !.reading = viewer.reading \ {s},
                                       !.msgs = viewer.msgs \cup {streamClosedMsg(s)}]
    /\ ViewerOnly

\* The function waitCmd returned: cmd.Wait() has seen the command exit and
\* closed the read ends of the pipes.
WaitReturns ==
    /\ viewer.waiting
    /\ viewer.process = "exited"
    /\ LET err == IF viewer.code = 0 THEN NilErr ELSE ExitError
       IN  viewer' = [viewer EXCEPT !.waiting = FALSE, !.readEndsClosed = TRUE,
                          !.msgs = viewer.msgs \cup
                                   {commandFinishedMsg(exitStatusFromError(err, viewer.code), err)}]
    /\ ViewerOnly

\* The command a reader's message handler returns: the next read on that
\* stream, if the model still has its reader.
ReadAgain(v, stream) == IF v.reader[stream] # "nil" THEN v.reading \cup {stream} ELSE v.reading

\* model.Update(msg) for the message the program hands it next.
UpdateCommandFinished(v, msg) ==
    [v EXCEPT !.exitCode = msg.exitCode,
              !.err = IF msg.err # NilErr THEN msg.err ELSE v.err,
              !.status = IF msg.err = NilErr /\ msg.exitCode = 0 THEN "succeeded" ELSE "failed",
              !.msgs = IF ~v.keepOpen THEN v.msgs \cup {QuitMsg} ELSE v.msgs]

UpdateModel(v, msg) ==
    CASE msg.type = "commandStartFailed" ->
            [v EXCEPT !.status = "failed", !.err = msg.err,
                      !.exitCode = exitStatusFromError(msg.err, 0),
                      !.msgs = v.msgs \cup {QuitMsg}]
      [] msg.type = "appendOutput" ->
            [v EXCEPT !.plainBuffer = Append(v.plainBuffer, msg.text),
                      !.reading = ReadAgain(v, msg.stream)]
      [] msg.type = "streamClosed" ->
            [v EXCEPT !.reader[msg.stream] = "nil", !.closed[msg.stream] = TRUE]
      [] msg.type = "streamErr" ->
            [v EXCEPT !.err = IF msg.err # NilErr /\ v.err = NilErr THEN msg.err ELSE v.err,
                      !.reading = ReadAgain(v, msg.stream)]
      [] msg.type = "commandFinished" -> UpdateCommandFinished(v, msg)

Update ==
    /\ viewer.program = "running"
    /\ \E msg \in viewer.msgs :
        /\ msg.type # "quit"
        /\ viewer' = UpdateModel([viewer EXCEPT !.msgs = viewer.msgs \ {msg}], msg)
    /\ ViewerOnly

\* model.Update(tea.KeyMsg): while the command runs ctrl+c interrupts it;
\* afterwards q, enter, esc and ctrl+c close the viewer.
KeyPress ==
    /\ viewer.program = "running"
    /\ \E key \in {"q", "ctrl+c"} :
        IF viewer.status = "running"
        THEN /\ key = "ctrl+c"
             /\ viewer.process = "running"
             /\ viewer' = [viewer EXCEPT !.interrupted = TRUE]
        ELSE viewer' = [viewer EXCEPT !.msgs = viewer.msgs \cup {QuitMsg},
                                      !.keys = viewer.keys \cup {key}]
    /\ ViewerOnly

\* Run(ctx, cmdStr, opts) once the program has ended: the Result built from
\* the final model.
ViewerResult(vm) ==
    [ExitCode |-> vm.exitCode,
     Output |-> vm.plainBuffer,
     Err |-> IF vm.status = "succeeded" THEN NilErr
             ELSE IF vm.err = NilErr /\ vm.exitCode # 0
             THEN ErrorsErrorf("command exited with code", "")
             ELSE vm.err]

\* The program handles tea.Quit: p.Run returns the model, Run its Result, and
\* RunActionCallback the Result's error.
ProgramQuits ==
    /\ viewer.program = "running"
    /\ QuitMsg \in viewer.msgs
    /\ viewer' = [viewer EXCEPT !.program = "quit", !.msgs = viewer.msgs \ {QuitMsg},
                                !.result = ViewerResult(viewer),
                                !.callbackErr = ViewerResult(viewer).Err]
    /\ ViewerOnly

ViewerNext ==
    \/ ViewerStart
    \/ ProcessWrites
    \/ ProcessExits
    \/ ReadLine
    \/ WaitReturns
    \/ Update
    \/ KeyPress
    \/ ProgramQuits

ViewerSpec == ViewerInit /\ [][ViewerNext]_vars

\* ------------------------------------------------------------------ stream runner
\* The stream command: runStreamWithReader reads its input line by line and
\* runs what it has read so far as a command, each in a goroutine of its own
\* with a context of its own.
MaxInput == 2

\* The runner is started outside any wizard run, with one of the three error
\* behaviours and a reader that holds some lines.  Its locals before the
\* loop: cancel is the number of the context it cancels (0 is nil), wg the
\* count of the WaitGroup, ctxs the contexts created so far and goroutines the
\* goroutines launched so far, each with where it is and, for the record, how
\* it ended.
StreamInit ==
    /\ yaml = [steps |-> <<>>, GlobalState |-> EmptyMap]
    /\ initialStateOpt = EmptyMap
    /\ initialStateArg = EmptyMap
    /\ registered = Registration({}, {})
    /\ wizard = NoWizard
    /\ loadErr = NilErr
    /\ pc = "stream"
    /\ currentStepIndex = 0
    /\ wizardState = EmptyMap
    /\ stepResult = EmptyMap
    /\ nextStepIDOverride = ""
    /\ runErr = NilErr
    /\ iterations = 0
    /\ events = <<>>
    /\ seeded = EmptyMap
    /\ background = {}
    /\ cancelledAt = -1
    /\ earlier = NoRun
    /\ viewer = NoViewer
    /\ \E lines \in 0..MaxInput, errorBehavior \in {"ignore", "debug", "exit"} :
            runner = [pc |-> "scan", input |-> lines, errorBehavior |-> errorBehavior,
                      cancel |-> 0, wg |-> 0, ctxs |-> <<>>, goroutines |-> <<>>]

\* The runner's actions touch nothing of the wizard or the viewer.
StreamOnly ==
    UNCHANGED <<yaml, initialStateOpt, initialStateArg, registered, wizard, loadErr, pc,
                currentStepIndex, wizardState, stepResult, nextStepIDOverride, runErr,
                iterations, events, seeded, background, cancelledAt, earlier, viewer>>

\* context.WithCancel, wg.Add(1) and the go statement.
LaunchWithoutAdd(r) ==
    [r EXCEPT !.ctxs = Append(r.ctxs, "live"), !.cancel = Len(r.ctxs) + 1,
              !.goroutines = Append(r.goroutines, [at |-> "started", how |-> ""])]

Launch(r) ==
    [r EXCEPT !.ctxs = Append(r.ctxs, "live"), !.cancel = Len(r.ctxs) + 1,
              !.wg = r.wg + 1,
              !.goroutines = Append(r.goroutines, [at |-> "started", how |-> ""])]

\* scanner.Scan() returned a line: the context of the previous command, if
\* there is one, is cancelled and the runner goes on to wait for it; the
\* first command is launched at once.
ScanLine ==
    /\ runner.pc = "scan"
    /\ runner.input > 0
    /\ LET r == [runner EXCEPT !.input = runner.input - 1]
       IN  runner' = IF r.cancel # 0
                     THEN [r EXCEPT !.ctxs[r.cancel] = "cancelled", !.pc = "wait"]
                     ELSE Launch(r)
    /\ StreamOnly

\* wg.Wait() returned in the loop: the next command is launched.
PreviousFinished ==
    /\ runner.pc = "wait"
    /\ runner.wg = 0
    /\ runner' = [Launch(runner) EXCEPT !.pc = "scan"]
    /\ StreamOnly

\* scanner.Scan() returned false: the last command, if there is one, is
\* cancelled and the runner goes on to wait for it.
ScanEnds ==
    /\ runner.pc = "scan"
    /\ runner.input = 0
    /\ runner' = IF runner.cancel # 0
                 THEN [runner EXCEPT !.ctxs[runner.cancel] = "cancelled", !.pc = "drain"]
                 ELSE [runner EXCEPT !.pc = "returned"]
    /\ StreamOnly

\* wg.Wait() returned after the loop: runStreamWithReader returns.
LastFinished ==
    /\ runner.pc = "drain"
    /\ runner.wg = 0
    /\ runner' = [runner EXCEPT !.pc = "returned"]
    /\ StreamOnly

\* A goroutine returns: its deferred wg.Done() runs.
Finish(r, g, how) ==
    [r EXCEPT !.goroutines[g] = [at |-> "done", how |-> how], !.wg = r.wg - 1]

\* handleError(err, command, errorBehavior) in goroutine g: "exit" ends the
\* process; after every other behaviour the goroutine returns.
handleError(r, g, how) ==
    IF r.errorBehavior = "exit"
    THEN [r EXCEPT !.pc = "exited"]
    ELSE Finish(r, g, how)

\* runStreamCommand, up to form.Run: the command does not parse, holds no
\* command, holds several, or holds one form.
ParseCommand ==
    /\ runner.pc \notin {"absent", "exited"}
    /\ \E g \in 1..Len(runner.goroutines) :
        /\ runner.goroutines[g].at = "started"
        /\ \E parsed \in {"error", "none", "several", "form"} :
            runner' = CASE parsed = "none" -> Finish(runner, g, "empty")
                        [] parsed = "form" -> [runner EXCEPT !.goroutines[g].at = "form"]
                        [] OTHER -> handleError(runner, g, "rejected")
    /\ StreamOnly

\* form.Run(ctx) returned: because its context was cancelled, or, before
\* that, with the user's values or with an error; or it panicked and the
\* goroutine recovered.
FormReturns ==
    /\ runner.pc \notin {"absent", "exited"}
    /\ \E g \in 1..Len(runner.goroutines) :
        /\ runner.goroutines[g].at = "form"
        /\ \E outcome \in (IF runner.ctxs[g] = "cancelled" THEN {"cancelled"}
                            ELSE {"values", "error"}) \cup {"panic"} :
                runner' = CASE outcome = "cancelled" -> Finish(runner, g, "cancelled")
                            [] outcome = "values" -> Finish(runner, g, "completed")
                            [] OTHER -> handleError(runner, g, "failed")
    /\ StreamOnly

StreamNext ==
    \/ ScanLine
    \/ PreviousFinished
    \/ ScanEnds
    \/ LastFinished
    \/ ParseCommand
    \/ FormReturns

StreamSpec == StreamInit /\ [][StreamNext]_vars

\* ------------------------------------------------------------------ history
IsExecuteEvent(e) == e.ev = "execute"

\* The executor invocations so far, in order.
Executions == SelectSeq(events, IsExecuteEvent)

\* Run has been entered (LoadWizard succeeded and the state is pre-seeded).
Running == pc \notin {"load", "loaded", "rejected"}

\* seed overwritten key by key by each map of results, in order: a key's value
\* is the one of the last map that has it, or the seed's.
Overwritten(seed, results) ==
    [k \in DOMAIN seed \cup UNION {DOMAIN results[i] : i \in 1..Len(results)} |->
        LET writers == {i \in 1..Len(results) : k \in DOMAIN results[i]}
        IN  IF writers = {} THEN seed[k]
            ELSE results[CHOOSE i \in writers : \A j \in writers : j <= i][k]]

\* The result maps merged so far, in order.
IsMergeEvent(e) == e.ev = "merge"
MergedResults ==
    LET ms == SelectSeq(events, IsMergeEvent) IN [i \in 1..Len(ms) |-> ms[i].data]

\* No step names a callback or a skip condition.
IsLinear(steps) ==
    \A i \in 1..Len(steps) :
        /\ steps[i].StepSkipCondition.text = ""
        /\ steps[i].StepBeforeCallback = ""
        /\ steps[i].StepAfterCallback = ""
        /\ steps[i].StepValidationCallback = ""
        /\ steps[i].StepNavigationCallback = ""

\* ------------------------------------------------------------------ claims

SkipConditionIsTrue ==
    /\ pc = "loop"
    /\ currentStepIndex < Len(wizard.Steps)
    /\ CurrentStep.StepSkipCondition.text # ""
    /\ evaluateExprCondition(CurrentStep.StepSkipCondition, wizardState) =
            [value |-> TRUE, err |-> NilErr]

\* C2: a loop iteration that finds the current step's skip condition true
\* goes straight to the loop head at currentStepIndex + 1: the state, the
\* steps and the run's error are unchanged, and the only thing recorded for
\* that iteration, then and ever, is the skip itself (no executor, no
\* before/after/validation/navigation callback).
C2_SkippedStepIsNotExecuted ==
    [][SkipConditionIsTrue =>
        /\ pc' = "loop"
        /\ currentStepIndex' = currentStepIndex + 1
        /\ wizardState' = wizardState
        /\ wizard' = wizard
        /\ runErr' = runErr
        /\ Len(events') = Len(events) + 1
        /\ SubSeq(events', 1, Len(events)) = events
        /\ events'[Len(events')].ev = "skip"
        /\ events'[Len(events')].step = currentStepIndex
        /\ \A p, q \in 1..Len(events') :
            (events'[p].ev = "skip" /\ events'[q].iter = events'[p].iter) => q = p]_vars

\* A step has been skipped and a later step executed.
C2_Witness ==
    \E p, q \in 1..Len(events) :
        /\ p < q
        /\ events[p].ev = "skip"
        /\ events[q].ev = "execute"
        /\ events[q].step = events[p].step + 1

\* C3: an executor that returned the user-abort sentinel is the last thing
\* Run invoked: Run has returned, its error is the user-abort sentinel for
\* errors.Is, and the state is the one the executor was handed, which is the
\* pre-seeded state overwritten by the results merged before.
C3_UserAbortHaltsRun ==
    \A p \in 1..Len(events) :
        (events[p].ev = "execute" /\ ErrorsIs(events[p].err, ErrUserAborted))
        => /\ p = Len(events)
           /\ pc = "done"
           /\ ErrorsIs(runErr, ErrUserAborted)
           /\ wizardState = events[p].state
           /\ wizardState = Overwritten(seeded, MergedResults)

\* The executor of a step after the first returned the user-abort sentinel,
\* with results merged before it.
C3_Witness ==
    /\ pc = "done"
    /\ Len(events) > 0
    /\ events[Len(events)].ev = "execute"
    /\ ErrorsIs(events[Len(events)].err, ErrUserAborted)
    /\ events[Len(events)].step = 1
    /\ wizardState # seeded

\* C4: an executor that returned the not-implemented sentinel does not end
\* Run: the iteration goes on to its after and merge blocks with an empty
\* result, the merge of that iteration merges the empty map and leaves the
\* state as the executor saw it, and (the step naming no navigation
\* callback) the next iteration is at the following index.
C4_NotImplementedContinues ==
    \A p \in 1..Len(events) :
        (events[p].ev = "execute" /\ ErrorsIs(events[p].err, ErrStepNotImplemented))
        => /\ p = Len(events)
                => (pc \in {"after", "merge"} /\ stepResult = EmptyMap /\ runErr = NilErr)
           /\ \A q \in (p + 1)..Len(events) :
                /\ (events[q].iter = events[p].iter /\ events[q].ev = "merge")
                    => (events[q].data = EmptyMap /\ events[q].state = events[p].state)
                /\ (/\ events[q].iter = events[p].iter + 1
                    /\ wizard.Steps[events[p].step + 1].StepNavigationCallback = "")
                    => events[q].step = events[p].step + 1

\* After a not-implemented executor, the following step has been executed.
C4_Witness ==
    \E p, q \in 1..Len(events) :
        /\ p < q
        /\ events[p].ev = "execute"
        /\ ErrorsIs(events[p].err, ErrStepNotImplemented)
        /\ events[q].ev = "execute"
        /\ events[q].step = events[p].step + 1
        /\ events[q].state = events[p].state

\* A navigation callback has answered with a non-empty id that no step has.
AnsweredMissingStep(e) ==
    /\ e.ev = "navigation"
    /\ e.err = NilErr
    /\ e.answer \notin {"nil", ""}
    /\ \A i \in 1..Len(wizard.Steps) : wizard.Steps[i].StepID # e.answer

\* C5: after a navigation callback answered with a non-empty id that matches
\* no step, nothing but the navigation logic runs, and it makes Run return
\* the error that names that id.
C5_MissingNavigationTargetFails ==
    \A p \in 1..Len(events) :
        AnsweredMissingStep(events[p])
        => \/ p = Len(events) /\ pc = "navigate"
           \/ /\ p + 1 = Len(events)
              /\ events[p + 1].ev = "navigate"
              /\ pc = "done"
              /\ runErr = ErrorsErrorf(
                    "navigation callback requested jump to non-existent step ID",
                    events[p].answer)

\* Run has returned the missing-target error.
C5_Witness ==
    /\ pc = "done"
    /\ runErr.msg = "navigation callback requested jump to non-existent step ID"
    /\ runErr.arg = "nope"
    /\ AnsweredMissingStep(events[Len(events) - 1])

\* Two steps of the wizard file share an id.
HasDuplicateID(steps) ==
    \E i, j \in 1..Len(steps) : i < j /\ steps[i].StepID = steps[j].StepID

\* C6: once LoadWizard has run on a file in which two steps share an id, it
\* has returned an error and no wizard, and nothing is ever invoked.
C6_DuplicateIDsRejected ==
    (pc # "load" /\ HasDuplicateID(yaml.steps))
    => /\ pc = "rejected"
       /\ loadErr # NilErr
       /\ wizard = NoWizard
       /\ events = <<>>

\* LoadWizard has rejected a file for a repeated (non-empty) id.
C6_Witness ==
    /\ pc = "rejected"
    /\ HasDuplicateID(yaml.steps)
    /\ loadErr.msg = "duplicate step ID found"
    /\ loadErr.arg # ""

\* The decision step of the scenario: choices x and y routed by its
\* next_step_map to the two steps that follow it, no navigation callback.
IsBranchingDecision(index) ==
    /\ index + 3 <= Len(wizard.Steps)
    /\ LET ds == wizard.Steps[index + 1]
       IN  /\ ds.StepType = "decision"
           /\ ~ds.Placeholder
           /\ ds.StepNavigationCallback = ""
           /\ ds.Choices = <<"x", "y">>
           /\ DOMAIN ds.NextStepMap = {"x", "y"}
           /\ wizard.Steps[index + 2].StepID = ds.NextStepMap["x"]
           /\ wizard.Steps[index + 3].StepID = ds.NextStepMap["y"]

\* C7: after such a decision step returned the choice y, the state the next
\* executor sees has choice = y, and that executor is stepY's: stepX is not
\* executed in between.
C7_DecisionRoutesToChosenStep ==
    \A p, q \in 1..Len(events) :
        (/\ p < q
         /\ events[p].ev = "execute"
         /\ IsBranchingDecision(events[p].step)
         /\ events[p].err = NilErr
         /\ events[p].data = [k \in {"choice"} |-> "y"]
         /\ events[q].ev = "execute"
         /\ \A r \in (p + 1)..(q - 1) : events[r].ev # "execute")
        => /\ events[q].state["choice"] = "y"
           /\ wizard.Steps[events[q].step + 1].StepID =
                wizard.Steps[events[p].step + 1].NextStepMap["y"]

\* The three layers, merged key by key: the value of the highest layer that
\* defines the key.
LayeredSeed ==
    [k \in DOMAIN yaml.GlobalState \cup DOMAIN initialStateOpt \cup DOMAIN initialStateArg |->
        IF k \in DOMAIN initialStateArg THEN initialStateArg[k]
        ELSE IF k \in DOMAIN initialStateOpt THEN initialStateOpt[k]
        ELSE yaml.GlobalState[k]]

\* C8: the state Run starts its loop with, and the state handed to the first
\* thing Run invokes, has exactly the keys some layer defines, each with the
\* value of the highest layer defining it: Run's argument over the load-time
\* initial state over global_state.
C8_InitialStateLayers ==
    Running
    => /\ seeded = LayeredSeed
       /\ iterations = 0 => wizardState = LayeredSeed
       /\ Len(events) > 0 => events[1].state = LayeredSeed

\* A first step has been handed a state in which all three layers define
\* flag, and name comes from global_state alone.
C8_Witness ==
    /\ Running
    /\ Len(events) > 0
    /\ "flag" \in DOMAIN yaml.GlobalState \cap DOMAIN initialStateOpt \cap DOMAIN initialStateArg
    /\ "name" \in DOMAIN yaml.GlobalState
    /\ "name" \notin DOMAIN initialStateOpt \cup DOMAIN initialStateArg
    /\ events[1].state = [flag |-> initialStateArg["flag"], name |-> yaml.GlobalState["name"]]

\* The place of each lifecycle event in a step's lifecycle.
Rank(ev) ==
    CASE ev = "skip" -> 0
      [] ev = "before" -> 1
      [] ev = "execute" -> 2
      [] ev = "after" -> 3
      [] ev = "merge" -> 4
      [] ev = "validation" -> 5
      [] ev = "navigation" -> 6
      [] ev = "navigate" -> 7

\* C9: the events of one loop iteration are consecutive and those of one
\* step, in the order before-callback, execute, after-callback, merge,
\* validation-callback, navigation callback, navigation decision; a merge
\* comes after an execute
\* and a navigation decision after a merge of the same iteration; and an
\* event of another iteration follows only a completed one (one that ended
\* in its navigation decision, or in a skip).
C9_LifecycleOrder ==
    \A q \in 1..Len(events) :
        /\ (q > 1 /\ events[q - 1].iter = events[q].iter)
            => /\ events[q - 1].step = events[q].step
               /\ Rank(events[q - 1].ev) < Rank(events[q].ev)
        /\ (q > 1 /\ events[q - 1].iter # events[q].iter)
            => /\ events[q].iter = events[q - 1].iter + 1
               /\ events[q - 1].ev \in {"skip", "navigate"}
        /\ events[q].ev = "merge"
            => \E r \in 1..(q - 1) : events[r].iter = events[q].iter /\ events[r].ev = "execute"
        /\ events[q].ev = "navigate"
            => \E r \in 1..(q - 1) : events[r].iter = events[q].iter /\ events[r].ev = "merge"

\* A step has gone through all seven lifecycle events, and the next step has
\* begun.
C9_Witness ==
    \E p \in 1..Len(events) :
        /\ p + 7 <= Len(events)
        /\ [i \in 1..7 |-> events[p + i - 1].ev] = Lifecycle
        /\ events[p + 7].step # events[p].step

\* C10: a before, after, validation or navigation callback that returned an
\* error is the last thing Run invoked: Run has returned a non-nil error that
\* wraps the callback's and names the callback slot, with the state the
\* callback was handed, which is the pre-seeded state overwritten by the
\* results merged so far.
C10_CallbackErrorAbortsRun ==
    \A p \in 1..Len(events) :
        (events[p].ev \in {"before", "after", "validation", "navigation"}
         /\ events[p].err # NilErr)
        => /\ p = Len(events)
           /\ pc = "done"
           /\ runErr # NilErr
           /\ ErrorsIs(runErr, events[p].err)
           /\ runErr.msg = events[p].ev
           /\ wizardState = events[p].state
           /\ wizardState = Overwritten(seeded, MergedResults)

\* The before-callback of a later step failed after an earlier step's result
\* was merged.
C10_Witness ==
    /\ pc = "done"
    /\ Len(events) > 0
    /\ events[Len(events)].ev = "before"
    /\ events[Len(events)].err # NilErr
    /\ wizardState # seeded

\* C11: an executor that returned an error that is neither the user-abort
\* nor the not-implemented sentinel is the last thing Run invoked: Run has
\* returned a non-nil error that wraps the executor's, and the state is the one
\* the executor was handed, which is the pre-seeded state overwritten by the
\* results of the steps merged before (nothing of the failing step).
C11_ExecutorErrorAbortsRun ==
    \A p \in 1..Len(events) :
        (/\ events[p].ev = "execute"
         /\ events[p].err # NilErr
         /\ ~ErrorsIs(events[p].err, ErrUserAborted)
         /\ ~ErrorsIs(events[p].err, ErrStepNotImplemented))
        => /\ p = Len(events)
           /\ pc = "done"
           /\ runErr # NilErr
           /\ runErr # events[p].err
           /\ ErrorsIs(runErr, events[p].err)
           /\ runErr.msg = "error executing step"
           /\ wizardState = events[p].state
           /\ wizardState = Overwritten(seeded, MergedResults)
           /\ \A q \in 1..Len(events) : events[q].ev = "merge" => events[q].iter < events[p].iter

\* The executor of the second step failed with an I/O error of its note or
\* form, after the first step's result was merged.
C11_Witness ==
    /\ pc = "done"
    /\ Len(events) > 0
    /\ events[Len(events)].ev = "execute"
    /\ events[Len(events)].step = 1
    /\ ErrorsIs(events[Len(events)].err, HuhIOError)
    /\ wizardState # seeded

\* C12: within one loop iteration the after-callback is handed the state the
\* executor (and the before-callback) was handed, and the validation
\* callback is handed that state overwritten by the step's result map.
C12_AfterSeesPreMergeValidationSeesPostMerge ==
    \A p, q \in 1..Len(events) :
        (p < q /\ events[p].iter = events[q].iter)
        => /\ (events[p].ev \in {"before", "execute"} /\ events[q].ev = "after")
                => events[q].state = events[p].state
           /\ (events[p].ev = "execute" /\ events[q].ev = "validation")
                => events[q].state =
                        Overwritten(events[p].state,
                            <<IF events[p].err = NilErr THEN events[p].data ELSE EmptyMap>>)

\* An after-callback and a validation callback of the same step were handed
\* different states: the step's result changed the state in between.
C12_Witness ==
    \E p, q \in 1..Len(events) :
        /\ p < q
        /\ events[p].iter = events[q].iter
        /\ events[p].ev = "after"
        /\ events[q].ev = "validation"
        /\ events[q].state # events[p].state
        /\ \E r \in 1..p : events[r].ev = "before" /\ events[r].iter = events[p].iter

\* The id the navigation callback of this loop iteration asked to jump to:
\* "" if none was invoked or it answered nil or the empty string.
RequestedJump(iter) ==
    LET navs == {r \in 1..Len(events) :
                    /\ events[r].iter = iter
                    /\ events[r].ev = "navigation"
                    /\ events[r].err = NilErr
                    /\ events[r].answer \notin {"nil", ""}}
    IN  IF navs = {} THEN "" ELSE events[CHOOSE r \in navs : TRUE].answer

\* The step index Run went to after the navigation decision at history
\* position q.
IndexAfter(q) == IF q < Len(events) THEN events[q + 1].step ELSE currentStepIndex

SlotName(phase) ==
    CASE phase = "before" -> CurrentStep.StepBeforeCallback
      [] phase = "after" -> CurrentStep.StepAfterCallback
      [] phase = "validation" -> CurrentStep.StepValidationCallback
      [] phase \in {"navigation", "navigate"} -> CurrentStep.StepNavigationCallback
      [] OTHER -> ""

\* The block Run is at names a callback that is not in the registry.
AtUnregistered(phase) ==
    /\ pc = phase
    /\ SlotName(phase) # ""
    /\ SlotName(phase) \notin wizard.callbacks

\* C14: a callback block whose step names a callback the registry does not
\* have does what it does for an empty slot: Run moves to the next block and
\* nothing else changes (no invocation, no error, no override); the
\* navigation decision that follows an unregistered navigation callback goes
\* to the current index + 1.
C14_UnregisteredCallbackIsIgnored ==
    [][/\ \A phase \in {"before", "after", "validation", "navigation"} :
            AtUnregistered(phase)
            => /\ pc' = CASE phase = "before" -> "execute"
                          [] phase = "after" -> "merge"
                          [] phase = "validation" -> "navigation"
                          [] phase = "navigation" -> "navigate"
               /\ UNCHANGED <<wizard, currentStepIndex, wizardState, stepResult,
                              nextStepIDOverride, runErr, events>>
               /\ nextStepIDOverride = ""
       /\ AtUnregistered("navigate")
            => /\ pc' = "loop"
               /\ currentStepIndex' = currentStepIndex + 1
               /\ runErr' = runErr]_vars

\* A step naming only unregistered callbacks has gone through its lifecycle,
\* the step after it was executed, and Run returned nil.
C14_Witness ==
    /\ pc = "done"
    /\ runErr = NilErr
    /\ \E p, q \in 1..Len(events) :
        /\ p < q
        /\ events[p].ev = "execute"
        /\ events[q].ev = "execute"
        /\ events[q].step = events[p].step + 1
        /\ LET step == wizard.Steps[events[p].step + 1]
           IN  \A name \in {step.StepBeforeCallback, step.StepAfterCallback,
                            step.StepValidationCallback, step.StepNavigationCallback} :
                    name # "" /\ name \notin wizard.callbacks

\* The skip condition of the step at the current index is not empty and does
\* not evaluate to a boolean.
SkipConditionFails ==
    /\ pc = "loop"
    /\ currentStepIndex < Len(wizard.Steps)
    /\ CurrentStep.StepSkipCondition.text # ""
    /\ evaluateExprCondition(CurrentStep.StepSkipCondition, wizardState).err # NilErr

\* C15: a loop iteration that finds the current step's skip condition failing
\* to evaluate does not end Run and does not skip: it goes on to the step's
\* before block at the same index, as it does for a condition that is false,
\* with the state, the error and the history unchanged.
C15_SkipEvaluationErrorFailsOpen ==
    [][SkipConditionFails =>
        /\ pc' = "before"
        /\ currentStepIndex' = currentStepIndex
        /\ wizardState' = wizardState
        /\ runErr' = runErr
        /\ events' = events]_vars

\* Steps whose skip conditions did not compile and did not yield a boolean
\* have both been executed.
C15_Witness ==
    /\ \E p \in 1..Len(events) :
        /\ events[p].ev = "execute"
        /\ LET c == wizard.Steps[events[p].step + 1].StepSkipCondition
           IN  /\ c.text # ""
               /\ evaluateExprCondition(c, events[p].state).err.msg = "failed to compile condition"
    /\ \E p \in 1..Len(events) :
        /\ events[p].ev = "execute"
        /\ LET c == wizard.Steps[events[p].step + 1].StepSkipCondition
           IN  /\ c.text # ""
               /\ evaluateExprCondition(c, events[p].state).err.msg =
                        "condition did not return a boolean"

\* C16: when the form of a form step was aborted by the user, the form
\* step's executor returned the user-abort sentinel, and Run returned an
\* error that is the user-abort sentinel for errors.Is, not an "error
\* executing step" failure.
C16_FormAbortIsUserAbort ==
    \A p \in 1..Len(events) :
        (/\ events[p].ev = "execute"
         /\ wizard.Steps[events[p].step + 1].StepType = "form"
         /\ ErrorsIs(events[p].uiErr, HuhErrUserAborted))
        => /\ events[p].err = ErrUserAborted
           /\ pc = "done"
           /\ ErrorsIs(runErr, ErrUserAborted)
           /\ runErr.msg # "error executing step"

\* C17: when Run executes an action step (action_type function, a function
\* name) of a wizard that was loaded without any action callback, the step
\* is simulated: no callback is looked up, an error can only come from the
\* step's completion notice, and otherwise the step yields the placeholder
\* result and Run goes on with the lifecycle.
C17_RunSimulatesUnregisteredAction ==
    \A p \in 1..Len(events) :
        (/\ events[p].ev = "execute"
         /\ registered.actionCallbacks = {}
         /\ wizard.Steps[events[p].step + 1].StepType = "action"
         /\ wizard.Steps[events[p].step + 1].ActionType = "function"
         /\ wizard.Steps[events[p].step + 1].FunctionName # "")
        => /\ events[p].mode = "simulation"
           /\ events[p].err # NilErr => events[p].uiErr # NilErr
           /\ events[p].err = NilErr
                => /\ events[p].data =
                        [k \in {wizard.Steps[events[p].step + 1].OutputKey} |->
                            SimulatedResult(wizard.Steps[events[p].step + 1].FunctionName)]
                   /\ runErr = NilErr

\* A caller is about to get the outcome of Execute on an action step of type
\* function with a function name, an output key and no registry.
ExecutesWithoutRegistry(as) ==
    /\ pc = "loaded"
    /\ Len(events') = Len(events) + 1
    /\ as.StepType = "action"
    /\ as.ActionType = "function"
    /\ as.FunctionName # ""
    /\ as.OutputKey # ""
    /\ as.registry = "nil"

\* C18 as stated: such a step always succeeds, invokes no callback, and
\* returns the result map that binds output_key to the placeholder.
C18_SimulationAlwaysSucceeds ==
    [][\A i \in 1..Len(wizard.Steps) :
        (ExecutesWithoutRegistry(wizard.Steps[i]) /\ currentStepIndex' = i - 1)
        => LET e == events'[Len(events')]
           IN  /\ e.called = ""
               /\ e.err = NilErr
               /\ e.data = [k \in {wizard.Steps[i].OutputKey} |->
                                SimulatedResult(wizard.Steps[i].FunctionName)]]_vars

\* C18, amended: such a step invokes no callback; unless its completion
\* notice (shown unless show_completion is false) is aborted or fails, it
\* succeeds and its result map binds output_key to the placeholder; if the
\* notice is aborted or fails, Execute returns that error and no result.
C18_SimulationSucceedsUnlessNoticeFails ==
    [][\A i \in 1..Len(wizard.Steps) :
        (ExecutesWithoutRegistry(wizard.Steps[i]) /\ currentStepIndex' = i - 1)
        => LET e == events'[Len(events')]
           IN  /\ e.called = ""
               /\ e.raw = NilResult
               /\ e.uiErr = NilErr
                    => /\ e.err = NilErr
                       /\ e.data = [k \in {wizard.Steps[i].OutputKey} |->
                                        SimulatedResult(wizard.Steps[i].FunctionName)]
               /\ e.uiErr # NilErr
                    => /\ "completion" \in e.shown
                       /\ wizard.Steps[i].ShowComplete # "false"
                       /\ e.err # NilErr
                       /\ ErrorsIs(e.uiErr, HuhErrUserAborted) => e.err = ErrUserAborted
                       /\ e.data = EmptyMap]_vars

\* An action step without a registry was executed with show_completion off,
\* with callbacks registered on the wizard all the same, and returned the
\* placeholder under its output key.
C18_Witness ==
    /\ Len(events) = 1
    /\ events[1].ev = "execute"
    /\ wizard.Steps[1].registry = "nil"
    /\ wizard.Steps[1].ShowComplete = "false"
    /\ wizard.actionCallbacks # {}
    /\ wizard.Steps[1].FunctionName = "doThing"
    /\ events[1].err = NilErr
    /\ events[1].data = [out |-> SimulatedResult("doThing")]

\* What a callback's return value stands for once unwrapped: the Data of a
\* wrapped result, a map without its boolean UI-handled entry, the value
\* itself otherwise; "nil" for nil, a nil pointer or nil Data.
Unwrapped(raw) ==
    CASE raw.kind = "nil" -> "nil"
      [] raw = NilActionCallbackResultPtr -> "nil"
      [] raw.kind = "map" /\ raw.key = "absent" -> MapValue(raw.data, FALSE)
      [] raw.kind = "map" /\ raw.key \in {"true", "false"} -> MapValue(raw.data, FALSE)
      [] raw.kind = "map" -> MapValue(raw.data, TRUE)
      [] OTHER -> raw.data

\* An action step with an output key whose callback was invoked has returned
\* without error.
CompletedWithOutputKey(e) ==
    /\ e.ev = "execute"
    /\ wizard.Steps[e.step + 1].StepType = "action"
    /\ wizard.Steps[e.step + 1].OutputKey # ""
    /\ e.called # ""
    /\ e.err = NilErr

\* C19 as stated: whatever the callback returned, the result map of an
\* action step that completed successfully binds its output key to the
\* unwrapped return value.
C19_OutputKeyAlwaysBound ==
    \A p \in 1..Len(events) :
        CompletedWithOutputKey(events[p])
        => /\ wizard.Steps[events[p].step + 1].OutputKey \in DOMAIN events[p].data
           /\ events[p].data[wizard.Steps[events[p].step + 1].OutputKey] = Unwrapped(events[p].raw)

\* C19, amended: the result map binds the output key to the unwrapped return
\* value when that value is not nil; when the callback returned nil, a nil
\* wrapped result or a wrapped result with nil Data, the result map is empty
\* and the output key is not set.
C19_OutputKeyBoundUnlessNil ==
    \A p \in 1..Len(events) :
        CompletedWithOutputKey(events[p])
        => IF Unwrapped(events[p].raw) # "nil"
           THEN events[p].data =
                    [k \in {wizard.Steps[events[p].step + 1].OutputKey} |-> Unwrapped(events[p].raw)]
           ELSE events[p].data = EmptyMap

\* An action step stored the Data of a wrapped result under its output key.
C19_Witness ==
    /\ Len(events) = 1
    /\ CompletedWithOutputKey(events[1])
    /\ events[1].raw = ActionCallbackResultPtr("rows", TRUE)
    /\ events[1].data = [out |-> "rows"]

\* The callback's return value signals that it handled the UI itself: a
\* wrapped result with UIHandled set, or a map whose reserved key is true.
SignalsUIHandled(raw) ==
    \/ raw.kind \in {"ActionCallbackResult", "*ActionCallbackResult"} /\ raw.uiHandled
    \/ raw.kind = "map" /\ raw.key = "true"

\* C20: an action step whose action was carried out (its callback returned
\* without error, or it was simulated) has shown its completion notice
\* exactly if show_completion is unset or true and the callback's return
\* value did not signal UI-handled.
C20_CompletionNoticeUnlessUIHandled ==
    \A p \in 1..Len(events) :
        (/\ events[p].ev = "execute"
         /\ wizard.Steps[events[p].step + 1].StepType = "action"
         /\ \/ events[p].mode = "simulation"
            \/ events[p].called # "" /\ events[p].cbErr = NilErr)
        => ("completion" \in events[p].shown
            <=> /\ wizard.Steps[events[p].step + 1].ShowComplete \in {"nil", "true"}
                /\ ~SignalsUIHandled(events[p].raw))

\* With show_completion unset, a callback returned a map with the reserved
\* key set to true and the step showed no completion notice.
C20_Witness ==
    /\ Len(events) = 1
    /\ events[1].ev = "execute"
    /\ events[1].called = "collect"
    /\ events[1].raw = MapResult("rows", "true")
    /\ wizard.Steps[1].ShowComplete = "nil"
    /\ "completion" \notin events[1].shown
    /\ events[1].err = NilErr

\* C21: no progress-note goroutine an action step started is still running
\* once its Execute has returned: while Run is in any later phase or step,
\* and after a direct call of Execute.
C21_ProgressNoteIsJoined == background = {}

\* C22: once the context is cancelled, no executor of a step whose loop
\* iteration began after the cancellation returns without an error, and a
\* Run that began such an iteration returns an error.
C22_CancellationAbortsRun ==
    cancelledAt >= 0
    => /\ \A q \in 1..Len(events) :
            (events[q].ev = "execute" /\ events[q].iter > cancelledAt)
            => events[q].err # NilErr
       /\ (pc = "done" /\ iterations > cancelledAt) => runErr # NilErr

\* C23: a step of Run that changes the wizard state is the pre-seeding or
\* the merge of a step result: the skip check, the callbacks, the executors
\* and the navigation leave the state as it is.
C23_StateChangesOnlyAtMerge ==
    [][wizardState' # wizardState => pc \in {"loaded", "merge"}]_vars

\* What Run visited: the steps and the phases of the history, in order.
Visited(evs) == [i \in 1..Len(evs) |-> <<evs[i].step, evs[i].ev>>]

\* The history entries that record what an executor or a callback returned.
IsOutcome(e) == e.ev \in {"before", "execute", "after", "validation", "navigation"}

\* Every executor and callback of these entries returned the same outcome
\* whenever it was invoked for the same step with the same state.
SameOutcomes(evs) ==
    \A i, j \in 1..Len(evs) :
        (/\ IsOutcome(evs[i])
         /\ evs[i].step = evs[j].step
         /\ evs[i].ev = evs[j].ev
         /\ evs[i].state = evs[j].state)
        => /\ evs[i].data = evs[j].data
           /\ evs[i].err = evs[j].err
           /\ evs[i].answer = evs[j].answer

\* C24: a second Run of the same wizard with the same initial state layers,
\* in which the executors and callbacks return what they returned in the
\* first for the same step and state, visits the same steps and phases in the
\* same order, and returns the same state and the same error.
C24_RunIsReplayable ==
    (earlier.done /\ SameOutcomes(earlier.events \o events))
    => /\ Len(events) <= Len(earlier.events)
       /\ Visited(events) = SubSeq(Visited(earlier.events), 1, Len(events))
       /\ pc = "done"
            => /\ Len(events) = Len(earlier.events)
               /\ wizardState = earlier.state
               /\ runErr = earlier.err

\* A second run has repeated a first one that went through two steps, one
\* of them a decision step that rewrote its own next_step on the way.
C24_Witness ==
    /\ earlier.done
    /\ pc = "done"
    /\ SameOutcomes(earlier.events \o events)
    /\ events = earlier.events
    /\ \E p, q \in 1..Len(events) : events[p].step # events[q].step
    /\ \E i \in 1..Len(wizard.Steps) :
            /\ wizard.Steps[i].StepType = "decision"
            /\ wizard.Steps[i].NextStep # yaml.steps[i].NextStep

\* The step of the scenario: a form whose skip condition is
\* "state.flag == true".
HasStatePrefixedCondition(index) ==
    /\ index < Len(wizard.Steps)
    /\ wizard.Steps[index + 1].StepType = "form"
    /\ wizard.Steps[index + 1].StepSkipCondition = StateFlagIsTrue

\* C25: in a run pre-seeded with {flag: true}, a form whose skip condition is
\* "state.flag == true" is skipped: its executor is never invoked, and when
\* the run of a wizard made of that form alone is over the state is still
\* {flag: true}.
C25_StatePrefixedConditionSkips ==
    (Running /\ seeded = [flag |-> "true"])
    => /\ \A q \in 1..Len(events) :
            events[q].ev = "execute" => ~HasStatePrefixedCondition(events[q].step)
       /\ (pc = "done" /\ Len(wizard.Steps) = 1 /\ HasStatePrefixedCondition(0))
            => wizardState = [flag |-> "true"]

\* The next_step the wizard file declares for the step at this index.
DeclaredNextStep(index) == yaml.steps[index + 1].NextStep

\* C26: when the navigation decision of a step whose definition declares a
\* next_step some step has is taken without an override, Run goes to the
\* first step with that id.
C26_ExplicitNextStepIsFollowed ==
    \A q \in 1..Len(events) :
        (/\ events[q].ev = "navigate"
         /\ events[q].answer = ""
         /\ FindStep(wizard.Steps, DeclaredNextStep(events[q].step)) # -1)
        => IndexAfter(q) = FindStep(wizard.Steps, DeclaredNextStep(events[q].step))

\* A step of the file LoadWizard cannot accept: its type is not one of the
\* five, or its id is empty.
IsMalformedStep(step) == step.StepType \notin StepTypes \/ step.StepID = ""

\* C27: once LoadWizard has run on a file with a step whose type is not one
\* of form, decision, action, info, summary or whose id is empty, it has
\* returned an error and no wizard, and nothing is ever invoked; a wizard it
\* did return has no such step.
C27_LoadValidatesTypeAndID ==
    /\ (pc # "load" /\ \E i \in 1..Len(yaml.steps) : IsMalformedStep(yaml.steps[i]))
        => /\ pc = "rejected"
           /\ loadErr # NilErr
           /\ wizard = NoWizard
           /\ events = <<>>
    /\ pc \notin {"load", "rejected"}
        => /\ loadErr = NilErr
           /\ \A i \in 1..Len(wizard.Steps) : ~IsMalformedStep(wizard.Steps[i])

\* LoadWizard has rejected a file whose only defect is a step of an unknown
\* type.
C27_Witness ==
    /\ pc = "rejected"
    /\ \E i \in 1..Len(yaml.steps) : yaml.steps[i].StepType \notin StepTypes \cup {""}
    /\ \A i \in 1..Len(yaml.steps) : yaml.steps[i].StepID # ""
    /\ ~HasDuplicateID(yaml.steps)
    /\ loadErr.msg = "could not unmarshal wizard YAML"
    /\ events = <<>>

\* The decision step a history entry is about.
DecisionOf(e) == wizard.Steps[e.step + 1]
IsDecisionExecution(e) ==
    /\ e.ev = "execute"
    /\ DecisionOf(e).StepType = "decision"
    /\ ~DecisionOf(e).Placeholder

\* C28: a decision step's Execute that returned no error returned a map with
\* exactly one entry, the target key bound to one of the step's choices; the
\* Execute of a decision step without choices returned an error.
C28_DecisionResultIsOneChoice ==
    \A q \in 1..Len(events) :
        IsDecisionExecution(events[q])
        => /\ events[q].err = NilErr
                => /\ DOMAIN events[q].data = {DecisionOf(events[q]).TargetKey}
                   /\ events[q].data[DecisionOf(events[q]).TargetKey]
                        \in Range(DecisionOf(events[q]).Choices)
           /\ Len(DecisionOf(events[q]).Choices) = 0 => events[q].err # NilErr

\* A decision step with two choices returned the second one under its
\* target key.
C28_Witness ==
    \E q \in 1..Len(events) :
        /\ IsDecisionExecution(events[q])
        /\ events[q].err = NilErr
        /\ Len(DecisionOf(events[q]).Choices) = 2
        /\ events[q].data = [k \in {"choice"} |-> "y"]

\* The command was started and the viewer has closed: Run has returned its
\* Result.
ViewerReturned == viewer.program = "quit" /\ viewer.process # "none"

\* C29: the Output of the Result the viewer returns holds every line the
\* command wrote to its stdout and its stderr.
C29_OutputHoldsEveryLine ==
    ViewerReturned
    => \A s \in Streams : \A i \in 1..Len(viewer.written[s]) :
            \E j \in 1..Len(viewer.result.Output) :
                viewer.result.Output[j] = viewer.written[s][i]

\* C30: when the viewer of a command that exited with a non-zero status has
\* closed, its status was failed, a key of the user closed it, and the action
\* callback returned an error.
C30_FailedCommandKeepsViewerOpen ==
    (ViewerReturned /\ viewer.process = "exited" /\ viewer.code # 0)
    => /\ viewer.status = "failed"
       /\ viewer.result.ExitCode # 0
       /\ viewer.keys # {}
       /\ viewer.callbackErr # NilErr

\* A navigation callback of the run so far handed back a step id: the
\* navigation that follows does not go to the next step in the list.
Overridden ==
    \E q \in 1..Len(events) :
        events[q].ev = "navigation" /\ events[q].answer \notin {"nil", ""}

\* Run has returned, or LoadWizard returned no wizard to run.
Returned == pc \in {"done", "rejected"}

MergesOf(k) == {q \in 1..Len(events) : events[q].ev = "merge" /\ k \in DOMAIN events[q].data}

\* The value the most recent of these merges wrote under the key.
LastMerged(k) == events[CHOOSE q \in MergesOf(k) : \A p \in MergesOf(k) : p <= q].data[k]

SuppliedLayers == <<yaml.GlobalState, initialStateOpt, initialStateArg>>

\* C33: whatever Run merges, the global_state and the load-time initial
\* state of the wizard stay as they were loaded, every Run pre-seeds its state
\* from the three layers as supplied, and the first thing a second Run of
\* the wizard invokes is handed the same state as the first thing the first
\* Run invoked.
C33_RunLeavesLayersAlone ==
    /\ pc \notin {"load", "rejected"}
        => /\ wizard.GlobalState = yaml.GlobalState
           /\ wizard.initialState = initialStateOpt
    /\ Running => seeded = Overwritten(EmptyMap, SuppliedLayers)
    /\ (earlier.done /\ earlier.events # <<>> /\ events # <<>>)
        => events[1].state = earlier.events[1].state

\* A first Run pre-seeded from all three layers merged a name over the
\* pre-seeded one and returned; the second Run has begun from the pre-seeded
\* state again.
C33_Witness ==
    /\ earlier.done
    /\ events # <<>>
    /\ yaml.GlobalState # EmptyMap
    /\ initialStateOpt # EmptyMap
    /\ initialStateArg # EmptyMap
    /\ earlier.state # seeded
    /\ earlier.state["name"] # seeded["name"]
    /\ events[1].state = seeded
    /\ seeded = [name |-> "Bob", flag |-> initialStateArg["flag"]]

\* The last entry of the history, and the entries of its loop iteration that
\* are merges or executor invocations.
LastEvent == events[Len(events)]
MergesOfLastIteration ==
    {q \in 1..Len(events) : events[q].ev = "merge" /\ events[q].iter = LastEvent.iter}
ExecutionsOfLastIteration ==
    {q \in 1..Len(events) : events[q].ev = "execute" /\ events[q].iter = LastEvent.iter}

\* Run returned an error because of what the last entry records: a late
\* failure is a validation or navigation callback's error or a navigation
\* target no step has, an early one a before-callback's, an executor's (the
\* user's abort included) or an after-callback's error.
FailedRun == pc = "done" /\ runErr # NilErr /\ events # <<>>
FailedLate ==
    /\ FailedRun
    /\ \/ LastEvent.ev \in {"validation", "navigation"} /\ LastEvent.err # NilErr
       \/ LastEvent.ev = "navigate"
FailedEarly ==
    /\ FailedRun
    /\ LastEvent.ev \in {"before", "execute", "after"}
    /\ LastEvent.err # NilErr

\* C34: the state Run returns with the error of a late failure is the one
\* the merge of the failing step left, with every entry of the result the
\* step's executor returned; the state it returns with the error of an early
\* failure is the one the step's iteration began with, and no result of the
\* step was merged.
C34_NoRollbackOnLateFailure ==
    /\ FailedLate
        => \E q \in MergesOfLastIteration : \E x \in ExecutionsOfLastIteration :
                /\ x < q
                /\ events[q].data = IF events[x].err = NilErr THEN events[x].data ELSE EmptyMap
                /\ wizardState = events[q].state
                /\ wizardState = MergeInto(events[x].state, events[q].data)
                /\ \A k \in DOMAIN events[q].data : wizardState[k] = events[q].data[k]
    /\ FailedEarly
        => /\ MergesOfLastIteration = {}
           /\ wizardState = LastEvent.state
           /\ \A q \in 1..Len(events) :
                events[q].iter = LastEvent.iter => events[q].state = wizardState

\* The validation callback of a step failed, and the state Run returned has
\* the entry the step's executor returned, which is not the entry of the
\* state the executor was handed.
C34_Witness ==
    /\ FailedLate
    /\ LastEvent.ev = "validation"
    /\ \E x \in ExecutionsOfLastIteration :
            /\ events[x].data # EmptyMap
            /\ wizardState # events[x].state
            /\ \E k \in DOMAIN events[x].data : wizardState[k] = events[x].data[k]

\* The after-callback of a step whose executor returned a result failed, and
\* the state Run returned is the one the executor was handed.
C34_WitnessEarly ==
    /\ FailedEarly
    /\ LastEvent.ev = "after"
    /\ \E x \in ExecutionsOfLastIteration :
            /\ events[x].data # EmptyMap
            /\ wizardState = events[x].state

\* The executor invocation of an action step whose callback returned without
\* an error and whose completion notice the user then aborted.
AbortedAtCompletion(e) ==
    /\ e.ev = "execute"
    /\ wizard.Steps[e.step + 1].StepType = "action"
    /\ e.called # ""
    /\ e.cbErr = NilErr
    /\ "completion" \in e.shown
    /\ ErrorsIs(e.uiErr, HuhErrUserAborted)

\* C35: an action step whose completion notice the user aborted, after its
\* callback had returned without an error, returned the user-abort sentinel
\* and no result; it is the last thing Run invoked, Run has returned the
\* sentinel, and the state is the one the step was handed: nothing was merged
\* in that iteration, the callback's result is not under the output key.
C35_AbortAtCompletionDropsResult ==
    \A p \in 1..Len(events) :
        AbortedAtCompletion(events[p])
        => /\ events[p].err = ErrUserAborted
           /\ events[p].data = EmptyMap
           /\ p = Len(events)
           /\ pc = "done"
           /\ ErrorsIs(runErr, ErrUserAborted)
           /\ wizardState = events[p].state
           /\ \A q \in 1..Len(events) :
                events[q].ev = "merge" => events[q].iter # events[p].iter

\* The callback doThing returned a value, the user aborted the completion
\* notice, and Run returned the abort with a state that has no output key.
C35_Witness ==
    /\ pc = "done"
    /\ runErr = ErrUserAborted
    /\ events # <<>>
    /\ AbortedAtCompletion(events[Len(events)])
    /\ events[Len(events)].called = "doThing"
    /\ events[Len(events)].raw = PlainResult("done")
    /\ wizard.Steps[events[Len(events)].step + 1].OutputKey = "out"
    /\ "out" \notin DOMAIN wizardState

\* The executor invocation of a function action step whose function_name
\* the wizard's action-callback registry does not have.
ExecutedUnregisteredAction(e) ==
    /\ e.ev = "execute"
    /\ wizard.Steps[e.step + 1].StepType = "action"
    /\ wizard.Steps[e.step + 1].ActionType = "function"
    /\ wizard.Steps[e.step + 1].FunctionName # ""
    /\ wizard.Steps[e.step + 1].FunctionName \notin wizard.actionCallbacks

TerminalStatuses == {"succeeded", "failed"}
StatusMoves == {<<"init", "running">>, <<"running", "succeeded">>, <<"running", "failed">>}

\* C37: every change of the viewer's status is init to running or running
\* to succeeded or failed; a key asks the viewer to close only when the
\* status is succeeded or failed; the viewer is asked to close, and closes,
\* only with such a status; and a viewer with keepOpen set that has closed
\* was closed by a key.
C37_ViewerQuitsOnlyWhenDone ==
    [][/\ viewer.status' # viewer.status => <<viewer.status, viewer.status'>> \in StatusMoves
       /\ viewer.keys' # viewer.keys => viewer.status \in TerminalStatuses
       /\ (QuitMsg \in viewer.msgs' \/ viewer.program' = "quit")
            => viewer.status' \in TerminalStatuses
       /\ (viewer.program' = "quit" /\ viewer.keepOpen') => viewer.keys' # {}]_vars

\* The goroutines of the stream runner that were launched and have not
\* returned.
ActiveCommands == {g \in 1..Len(runner.goroutines) : runner.goroutines[g].at # "done"}

\* C38: at most one command goroutine of the stream runner has been launched
\* and not returned; every command but the one launched last has had its
\* context cancelled and has returned; and once the runner has returned, so
\* has the last.
C38_OneCommandAtATime ==
    /\ Cardinality(ActiveCommands) <= 1
    /\ \A g \in 1..(Len(runner.goroutines) - 1) :
            runner.ctxs[g] = "cancelled" /\ runner.goroutines[g].at = "done"
    /\ runner.pc = "returned"
        => \A g \in 1..Len(runner.goroutines) :
                runner.ctxs[g] = "cancelled" /\ runner.goroutines[g].at = "done"

\* The runner has returned after two lines: the first command was in its
\* form when the second line cancelled it, the second when the input ended.
C38_Witness ==
    /\ runner.pc = "returned"
    /\ Len(runner.goroutines) = 2
    /\ \A g \in 1..2 : runner.goroutines[g] = [at |-> "done", how |-> "cancelled"]
    /\ runner.ctxs = <<"cancelled", "cancelled">>
    /\ runner.wg = 0

====
